---- MODULE Spec2Model ----
(***************************************************************************)
(* A model of scripts/extract_vectors.py (VectorExtractor v2.4): the       *)
(* rectangle clusterer merge_rects, the per-page figure segmentation of    *)
(* extract_vectors and the control flow of a run of the tool.              *)
(*                                                                         *)
(* Coordinates are integers counting HALF points: a PDF coordinate of n pt *)
(* is the number Pt(n) = 2*n.  The inputs are whole points; the midline    *)
(* (max_lx1 + min_rx0) / 2 and everything derived from it (px_right, the   *)
(* orphan splits) are then exact in half points.                           *)
(***************************************************************************)
EXTENDS Integers, Sequences, FiniteSets, TLC

Pt(n) == 2 * n

Max(a, b) == IF a >= b THEN a ELSE b

Min(a, b) == IF a <= b THEN a ELSE b

Abs(a) == IF a >= 0 THEN a ELSE 0 - a

(* Python's None, and a present value, for an optional argument. *)
None == << >>

Some(v) == << v >>

(***************************************************************************)
(* fitz.Rect                                                               *)
(***************************************************************************)
Rect(a, b, c, d) == [x0 |-> a, y0 |-> b, x1 |-> c, y1 |-> d]

(* A rect given in whole points. *)
RectPt(a, b, c, d) == Rect(Pt(a), Pt(b), Pt(c), Pt(d))

IsEmpty(r) == r.x0 >= r.x1 \/ r.y0 >= r.y1

Width(r) == Max(0, r.x1 - r.x0)

Height(r) == Max(0, r.y1 - r.y0)

(* r1 & r2: the common part, which is empty when either operand is. *)
Intersection(r1, r2) ==
    IF IsEmpty(r2) THEN r2
    ELSE IF IsEmpty(r1) THEN r1
    ELSE Rect(Max(r1.x0, r2.x0), Max(r1.y0, r2.y0),
              Min(r1.x1, r2.x1), Min(r1.y1, r2.y1))

(* r1.intersects(r2): the common part is not empty. *)
Intersects(r1, r2) ==
    /\ ~IsEmpty(r1)
    /\ ~IsEmpty(r2)
    /\ ~IsEmpty(Intersection(r1, r2))

(* A union that keeps the left operand and forgets the right one.         *)
UnionKeepFirst(r1, r2) == r1

(* r1 | r2: the smallest rect holding both; an empty operand adds nothing. *)
Union(r1, r2) ==
    IF IsEmpty(r2) THEN r1
    ELSE IF IsEmpty(r1) THEN r2
    ELSE Rect(Min(r1.x0, r2.x0), Min(r1.y0, r2.y0),
              Max(r1.x1, r2.x1), Max(r1.y1, r2.y1))

(* Twice the x-centroid (x0 + x1) / 2, to compare with twice a midline. *)
Cx2(r) == r.x0 + r.x1

(* Twice the y-centroid. *)
Cy2(r) == r.y0 + r.y1

(***************************************************************************)
(* rects_are_close and merge_rects                                         *)
(***************************************************************************)
rects_are_close(r1, r2, threshold) ==
    IF Intersects(r1, r2) THEN TRUE
    ELSE
        LET v_dist == IF r1.y1 < r2.y0 THEN r2.y0 - r1.y1
                      ELSE IF r2.y1 < r1.y0 THEN r1.y0 - r2.y1
                      ELSE 0
            h_dist == IF r1.x1 < r2.x0 THEN r2.x0 - r1.x1
                      ELSE IF r2.x1 < r1.x0 THEN r1.x0 - r2.x1
                      ELSE 0
        IN  v_dist < threshold /\ h_dist < threshold

(* The gutter guard of merge_rects: the two x-centroids lie strictly on    *)
(* opposite sides of the midline.                                          *)
CentroidsOpposite(a, b, mid) ==
    \/ Cx2(a) < 2 * mid /\ Cx2(b) > 2 * mid
    \/ Cx2(b) < 2 * mid /\ Cx2(a) > 2 * mid

GutterVetoOff(current, candidate, gutter_midline) == FALSE

GutterVeto(current, candidate, gutter_midline) ==
    /\ gutter_midline # None
    /\ CentroidsOpposite(current, candidate, gutter_midline[1])

should_merge(current, candidate, threshold, gutter_midline) ==
    /\ rects_are_close(current, candidate, threshold)
    /\ ~GutterVeto(current, candidate, gutter_midline)

RemoveAt(s, i) == SubSeq(s, 1, i - 1) \o SubSeq(s, i + 1, Len(s))

(* The inner while of merge_rects: current absorbs every later cluster it  *)
(* should merge with, scanning from index i (1-based); steps collects the  *)
(* pairs that were unioned.                                                *)
RECURSIVE MergeScan(_, _, _, _, _, _)
MergeScan(current, clusters, i, threshold, gutter_midline, steps) ==
    IF i > Len(clusters)
    THEN [current |-> current, clusters |-> clusters, steps |-> steps]
    ELSE IF should_merge(current, clusters[i], threshold, gutter_midline)
    THEN MergeScan(Union(current, clusters[i]), RemoveAt(clusters, i), i,
                   threshold, gutter_midline,
                   steps \cup {<<current, clusters[i]>>})
    ELSE MergeScan(current, clusters, i + 1, threshold, gutter_midline, steps)

(* One pass of the outer loop: pop the head, scan, append to new_clusters. *)
RECURSIVE MergePass(_, _, _, _, _)
MergePass(clusters, new_clusters, threshold, gutter_midline, steps) ==
    IF clusters = << >>
    THEN [clusters |-> new_clusters, steps |-> steps]
    ELSE LET s == MergeScan(Head(clusters), Tail(clusters), 1,
                            threshold, gutter_midline, steps)
         IN  MergePass(s.clusters, Append(new_clusters, s.current),
                       threshold, gutter_midline, s.steps)

(* A single pass and no fixpoint iteration. *)
MergeLoopOnePass(clusters, threshold, gutter_midline, steps) ==
    MergePass(clusters, << >>, threshold, gutter_midline, steps)

(* while changed: a pass changed something iff it unioned a pair, i.e. iff *)
(* it returned fewer clusters than it was given.                           *)
RECURSIVE MergeLoop(_, _, _, _)
MergeLoop(clusters, threshold, gutter_midline, steps) ==
    LET p == MergePass(clusters, << >>, threshold, gutter_midline, steps)
    IN  IF Len(p.clusters) < Len(clusters)
        THEN MergeLoop(p.clusters, threshold, gutter_midline, p.steps)
        ELSE p

(* merge_rects with the pairs it unioned. *)
MergeRun(rects, threshold, gutter_midline) ==
    IF rects = << >> THEN [clusters |-> << >>, steps |-> {}]
    ELSE MergeLoop(rects, threshold, gutter_midline, {})

merge_rects(rects, threshold, gutter_midline) ==
    MergeRun(rects, threshold, gutter_midline).clusters

SeqToSet(s) == {s[k] : k \in DOMAIN s}

(***************************************************************************)
(* The clusterer on its own: merge_rects applied to lists of rects drawn   *)
(* from a palette, to a permutation of the list and to its own output.     *)
(***************************************************************************)
MaxRects == 3

(* Rects around the midline x = 306 of a 612 pt page: two in the left      *)
(* column, two in the right column, one centred on the midline, one wide,  *)
(* one further down the left column.                                       *)
ClusterPalette ==
    { RectPt(250, 100, 290, 200),
      RectPt(200, 100, 240, 200),
      RectPt(296, 100, 316, 200),
      RectPt(322, 100, 360, 200),
      RectPt(380, 100, 420, 200),
      RectPt(250, 220, 290, 300),
      RectPt(100, 320, 500, 400) }

ClusterThresholds == {Pt(15), Pt(30)}

ClusterMidlines == {None, Some(Pt(306))}

SeqsUpTo(S, n) == UNION {[1..k -> S] : k \in 0..n}

Permutes(s, p) == [k \in DOMAIN s |-> s[p[k]]]

Bijections(n) == {p \in [1..n -> 1..n] : \A a, b \in 1..n : p[a] = p[b] => a = b}

(***************************************************************************)
(* The input of a run: the pages of the PDF as the parser exposes them.    *)
(* A drawing has a rect, a stroke color and a fill color, each "none"      *)
(* (None), "white" ((1, 1, 1)) or "ink" (any other color).  A text block   *)
(* has a bbox and lines; every line of the palette holds one span with the *)
(* line's bbox and text, and no text starts or ends with white space, so   *)
(* str.strip() leaves the palette's texts as they are.                     *)
(***************************************************************************)
PageW == Pt(612)

PageH == Pt(792)

Path(r) == [rect |-> r, color |-> "ink", fill |-> "none"]

Line(r, t) == [bbox |-> r, text |-> t]

Block(r, t) == [type |-> 0, bbox |-> r, lines |-> <<Line(r, t)>>]

Image(x, r) == [xref |-> x, rects |-> <<r>>]

Lorem20 == "lorem ipsum dolor si"

Body40 == Lorem20 \o Lorem20

Body60 == Body40 \o Lorem20

Body200 == Body60 \o Body60 \o Body60 \o Lorem20

(* The texts of the palette in which re.search finds one of fig_patterns:  *)
(* "figure" or "fig" with an optional dot, then white space and a digit    *)
(* (ignoring case); a lower-case letter in parentheses; a lower-case       *)
(* letter at a word start followed by a closing parenthesis.               *)
(* A text of 67 characters that starts with "Fig." and a digit with no     *)
(* white space between them: the patterns of find_figure_captions ask for  *)
(* one or more white space characters there, the caption test of line 280  *)
(* for zero or more.                                                       *)
FigNoSpace67 == "Fig.3: " \o Body60

FigPatternTexts ==
    {"Figure 1: foo", "Figure 2: bar", "Figure 3: panels", "(a)", "(b)", "(c)"}

(* The texts that is_pure_label's re.match accepts: one or more groups of  *)
(* letters or digits in parentheses, with optional white space after each, *)
(* and nothing else (ignoring case).                                       *)
PureLabelTexts == {"(a)", "(b)", "(c)"}

(* The texts that start like a caption (line 280): Figure or Fig, an       *)
(* optional dot, optional white space and a digit (ignoring case).         *)
CaptionStartTexts ==
    {"Figure 1: foo", "Figure 2: bar", "Figure 3: panels", FigNoSpace67}

MatchesFigPattern(t) == t \in FigPatternTexts

IsPureLabel(t) == t \in PureLabelTexts

StartsLikeCaption(t) == t \in CaptionStartTexts

(* " ".join of the lines' texts: what block_text.strip() is. *)
RECURSIVE JoinTexts(_)
JoinTexts(lines) ==
    IF lines = << >> THEN ""
    ELSE IF Len(lines) = 1 THEN lines[1].text
    ELSE lines[1].text \o " " \o JoinTexts(Tail(lines))

(* Two long body blocks in each column, low on the page. *)
TwoColumnBody ==
    << Block(RectPt(50, 400, 290, 500), Body200),
       Block(RectPt(50, 520, 290, 700), Body200),
       Block(RectPt(322, 400, 560, 500), Body200),
       Block(RectPt(322, 520, 560, 700), Body200) >>

(* Three body blocks in each column: the midline is (290 + 323) / 2. *)
ThreeColumnBody ==
    << Block(RectPt(50, 400, 290, 480), Body200),
       Block(RectPt(50, 500, 290, 580), Body200),
       Block(RectPt(50, 600, 290, 700), Body60),
       Block(RectPt(323, 400, 560, 480), Body200),
       Block(RectPt(323, 500, 560, 580), Body200),
       Block(RectPt(323, 600, 560, 700), Body60) >>

MkPage(d, im, b) ==
    [rect_w |-> PageW, rect_h |-> PageH, drawings |-> d, images |-> im,
     blocks |-> b, text_ok |-> TRUE, images_ok |-> TRUE]

(* Spec section 8, scenario 1: a single figure in one column. *)
PageSingle ==
    MkPage(<<Path(RectPt(100, 100, 300, 300))>>, << >>,
           <<Block(RectPt(100, 310, 250, 325), "Figure 1: foo")>>)

(* Scenario 2: two columns, two figures side by side, body text in both. *)
PageTwoColumn ==
    MkPage(<<Path(RectPt(50, 100, 280, 300)), Path(RectPt(340, 100, 560, 300))>>,
           << >>,
           <<Block(RectPt(50, 310, 200, 325), "Figure 1: foo"),
             Block(RectPt(340, 310, 490, 325), "Figure 2: bar")>>
           \o TwoColumnBody)

(* Scenario 3: three panels with labels under them and one caption. *)
PagePanels ==
    MkPage(<<Path(RectPt(50, 100, 180, 220)), Path(RectPt(200, 100, 330, 220)),
             Path(RectPt(350, 100, 480, 220))>>,
           << >>,
           <<Block(RectPt(105, 222, 125, 232), "(a)"),
             Block(RectPt(255, 222, 275, 232), "(b)"),
             Block(RectPt(405, 222, 425, 232), "(c)"),
             Block(RectPt(50, 235, 300, 250), "Figure 3: panels")>>)

(* Scenario 4: a paragraph right above the figure. *)
PageTextAbove ==
    MkPage(<<Path(RectPt(50, 300, 400, 500))>>, << >>,
           <<Block(RectPt(50, 260, 400, 295), Body200),
             Block(RectPt(50, 510, 250, 525), "Figure 1: foo")>>)

(* Scenario 5: an uncaptioned object across the gutter of a two-column page. *)
PageStraddle ==
    MkPage(<<Path(RectPt(100, 100, 520, 250))>>, << >>, TwoColumnBody)

(* An uncaptioned object that reaches exactly 10 pt left of the midline of  *)
(* a two-column page, and far to its right.                                *)
PageStraddleTen ==
    MkPage(<<Path(RectPt(296, 100, 420, 250))>>, << >>, TwoColumnBody)

(* Two columns, a narrow figure in the left one and a figure in the right  *)
(* one, each with its caption.                                             *)
PageNarrowLeft ==
    MkPage(<<Path(RectPt(60, 100, 200, 300)), Path(RectPt(340, 100, 560, 300))>>,
           << >>,
           <<Block(RectPt(60, 310, 200, 325), "Figure 1: foo"),
             Block(RectPt(340, 310, 490, 325), "Figure 2: bar")>>
           \o TwoColumnBody)

(* Scenario 6: a path over an embedded image, caption below. *)
PageHybrid ==
    MkPage(<<Path(RectPt(50, 100, 300, 300))>>,
           <<Image(7, RectPt(100, 150, 250, 250))>>,
           <<Block(RectPt(50, 310, 250, 325), "Figure 1: foo")>>)

(* Two figures stacked in one column, each with its caption. *)
PageStacked ==
    MkPage(<<Path(RectPt(100, 100, 300, 200)), Path(RectPt(100, 225, 300, 400))>>,
           << >>,
           <<Block(RectPt(100, 205, 250, 220), "Figure 1: foo"),
             Block(RectPt(100, 410, 250, 425), "Figure 2: bar")>>)

(* Two stacked figures, the first caption more than 10 pt above the second *)
(* figure.                                                                 *)
PageStackedGap ==
    MkPage(<<Path(RectPt(100, 100, 300, 200)), Path(RectPt(100, 240, 300, 400))>>,
           << >>,
           <<Block(RectPt(100, 205, 250, 220), "Figure 1: foo"),
             Block(RectPt(100, 410, 250, 425), "Figure 2: bar")>>)

(* Two stacked figures, the first caption (16 characters) less than 10 pt  *)
(* above the second figure.                                                *)
PageStackedLong ==
    MkPage(<<Path(RectPt(100, 100, 300, 200)), Path(RectPt(100, 225, 300, 400))>>,
           << >>,
           <<Block(RectPt(100, 205, 250, 220), "Figure 3: panels"),
             Block(RectPt(100, 410, 250, 425), "Figure 2: bar")>>)

(* A captioned figure, and beside it a drawing that reaches from above the *)
(* caption to below it.                                                    *)
PageOrphanBesideGroup ==
    MkPage(<<Path(RectPt(100, 100, 250, 300)), Path(RectPt(266, 280, 330, 380))>>,
           << >>,
           <<Block(RectPt(100, 310, 300, 325), "Figure 1: foo")>>)

(* A caption with no figure above it and two drawings that reach from      *)
(* above the caption to below it.                                          *)
PageTwoOrphans ==
    MkPage(<<Path(RectPt(100, 280, 180, 380)), Path(RectPt(200, 280, 280, 380))>>,
           << >>,
           <<Block(RectPt(100, 310, 300, 325), "Figure 1: foo")>>)

(* A captioned figure and, further down, a block of 67 characters that     *)
(* starts with "Fig.3".                                                    *)
PageFigNoSpace ==
    MkPage(<<Path(RectPt(100, 100, 300, 300))>>, << >>,
           <<Block(RectPt(100, 310, 250, 325), "Figure 1: foo"),
             Block(RectPt(100, 500, 400, 530), FigNoSpace67)>>)

(* A captioned figure with a short note just right of its top corner. *)
PageSideNote ==
    MkPage(<<Path(RectPt(50, 100, 250, 300))>>, << >>,
           <<Block(RectPt(50, 310, 200, 325), "Figure 1: foo"),
             Block(RectPt(267, 105, 290, 115), "note")>>)

(* Two panels 100 pt apart, one on each side of the page's middle, with a  *)
(* label under the first only and the caption under the first.             *)
PageOneLabel ==
    MkPage(<<Path(RectPt(50, 100, 250, 300)), Path(RectPt(350, 100, 550, 300))>>,
           << >>,
           <<Block(RectPt(140, 302, 160, 312), "(a)"),
             Block(RectPt(50, 315, 250, 330), "Figure 1: foo")>>)

(* The same two panels with a label under each. *)
PageTwoLabels ==
    MkPage(<<Path(RectPt(50, 100, 250, 300)), Path(RectPt(350, 100, 550, 300))>>,
           << >>,
           <<Block(RectPt(140, 302, 160, 312), "(a)"),
             Block(RectPt(440, 302, 460, 312), "(b)"),
             Block(RectPt(50, 315, 250, 330), "Figure 1: foo")>>)

(* Three figures down the page: one in the left column, one across the     *)
(* page with a full-width caption, one over the middle with a caption that *)
(* bridges the middle.                                                     *)
PageLeftFullMixed ==
    MkPage(<<Path(RectPt(50, 100, 250, 200)), Path(RectPt(50, 240, 560, 340)),
             Path(RectPt(200, 380, 400, 480))>>,
           << >>,
           <<Block(RectPt(50, 205, 200, 220), "Figure 1: foo"),
             Block(RectPt(50, 345, 450, 360), "Figure 2: bar"),
             Block(RectPt(200, 485, 400, 500), "Figure 3: panels")>>)

(* Three figures down the page: full-width caption, bridging caption,      *)
(* right-column caption.                                                   *)
PageFullMixedRight ==
    MkPage(<<Path(RectPt(50, 100, 560, 200)), Path(RectPt(200, 240, 400, 340)),
             Path(RectPt(350, 380, 550, 480))>>,
           << >>,
           <<Block(RectPt(50, 205, 450, 220), "Figure 1: foo"),
             Block(RectPt(200, 345, 400, 360), "Figure 2: bar"),
             Block(RectPt(350, 485, 500, 500), "Figure 3: panels")>>)

(* A captioned figure, an uncaptioned drawing stacked 25 pt under it, below *)
(* the caption, and an uncaptioned drawing 50 pt beside it, across the     *)
(* middle of the page.                                                     *)
PageStackedAside ==
    MkPage(<<Path(RectPt(100, 100, 300, 200)), Path(RectPt(100, 225, 300, 300)),
             Path(RectPt(350, 100, 450, 200))>>,
           << >>,
           <<Block(RectPt(100, 205, 250, 220), "Figure 1: foo")>>)

(* A banner at the top of the page with its caption inside the top margin. *)
PageTopBanner ==
    MkPage(<<Path(RectPt(100, 36, 300, 48))>>, << >>,
           <<Block(RectPt(100, 45, 250, 58), "Figure 1: foo")>>)

(* An uncaptioned drawing that bleeds over the left edge of the page. *)
PageBleed ==
    MkPage(<<Path(RectPt(-10, 100, 300, 300))>>, << >>, << >>)

(* Two columns whose figures are 10 pt apart across the gutter, a white    *)
(* mask, a hairline and an invisible path among the drawings.              *)
PageTightGutter ==
    MkPage(<<Path(RectPt(200, 100, 300, 300)), Path(RectPt(310, 100, 400, 300)),
             [rect |-> RectPt(0, 0, 612, 792), color |-> "none", fill |-> "white"],
             [rect |-> RectPt(50, 50, 50, 300), color |-> "ink", fill |-> "none"],
             [rect |-> RectPt(60, 60, 90, 90), color |-> "none", fill |-> "none"]>>,
           << >>,
           <<Block(RectPt(200, 310, 300, 325), "Figure 1: foo"),
             Block(RectPt(310, 310, 400, 325), "Figure 2: bar")>>
           \o TwoColumnBody)

(* Two columns; a small mark of the right column sits 8 pt from the left   *)
(* column's figure, too narrow for the merged object to straddle the       *)
(* midline by 10 pt on each side.                                          *)
PageGutterMark ==
    MkPage(<<Path(RectPt(60, 100, 300, 300)), Path(RectPt(308, 150, 314, 250))>>,
           << >>,
           <<Block(RectPt(60, 310, 250, 325), "Figure 1: foo")>> \o TwoColumnBody)

(* Two columns whose figures are 28 pt apart across the gutter, a legend   *)
(* box 20 pt above the left one and a label under it, three body blocks    *)
(* per column.                                                             *)
PageNearGutter ==
    MkPage(<<Path(RectPt(50, 100, 292, 300)), Path(RectPt(320, 100, 560, 300)),
             Path(RectPt(50, 62, 292, 80))>>,
           << >>,
           <<Block(RectPt(60, 302, 80, 312), "(a)"),
             Block(RectPt(50, 320, 200, 335), "Figure 1: foo"),
             Block(RectPt(323, 320, 480, 335), "Figure 2: bar")>>
           \o ThreeColumnBody)

(* Two columns, only the left figure captioned, the right one 32 pt away.  *)
PageOneCaption ==
    MkPage(<<Path(RectPt(50, 100, 290, 300)), Path(RectPt(322, 100, 560, 300))>>,
           << >>,
           <<Block(RectPt(50, 310, 200, 325), "Figure 1: foo")>> \o TwoColumnBody)

(* A page without drawings. *)
PageTextOnly == MkPage(<< >>, << >>, TwoColumnBody)

Layouts ==
    { PageSingle, PageTwoColumn, PagePanels, PageTextAbove, PageStraddle,
      PageHybrid, PageStacked, PageTopBanner, PageBleed, PageTightGutter, PageGutterMark, PageStraddleTen,
      PageNarrowLeft, PageStackedGap, PageStackedLong, PageOrphanBesideGroup,
      PageTwoOrphans, PageFigNoSpace, PageSideNote, PageOneLabel, PageTwoLabels,
      PageLeftFullMixed, PageFullMixedRight, PageStackedAside,
      PageNearGutter, PageOneCaption, PageTextOnly }

(* The pages a document may hold: each layout, with the text dictionary    *)
(* and the image enumeration available or not.                             *)
Pages ==
    { [p EXCEPT !.text_ok = t, !.images_ok = im] :
        p \in Layouts, t \in BOOLEAN, im \in BOOLEAN }

(***************************************************************************)
(* extract_vectors, lines 152-188: the drawing harvest and first clustering *)
(***************************************************************************)
HalfPt == 1

RECURSIVE Flatten(_)
Flatten(ss) == IF ss = << >> THEN << >> ELSE Head(ss) \o Flatten(Tail(ss))

(* page_image_rects: (rect, xref) of every image rect wider and higher     *)
(* than 1 pt; empty when the enumeration raises (except: pass).            *)
HarvestImages(pg) ==
    IF ~pg.images_ok THEN << >>
    ELSE Flatten([k \in DOMAIN pg.images |->
            LET img == pg.images[k]
                big(r) == Width(r) > Pt(1) /\ Height(r) > Pt(1)
                kept == SelectSeq(img.rects, big)
            IN  [n \in DOMAIN kept |-> [rect |-> kept[n], xref |-> img.xref]]])

has_stroke(p) == p.color # "none" /\ p.color # "white"

has_fill(p) == p.fill # "none" /\ p.fill # "white"

(* The rects handed to the first clustering: the visible paths, then the   *)
(* image rects.                                                            *)
HarvestRects(pg, image_rects) ==
    LET visible(p) == /\ ~(Width(p.rect) < HalfPt \/ Height(p.rect) < HalfPt)
                      /\ (has_stroke(p) \/ has_fill(p))
        kept == SelectSeq(pg.drawings, visible)
    IN  [k \in DOMAIN kept |-> kept[k].rect]
        \o [k \in DOMAIN image_rects |-> image_rects[k].rect]

(***************************************************************************)
(* find_figure_captions                                                    *)
(***************************************************************************)
CaptionType(text) ==
    IF Len(text) <= 5 \/ IsPureLabel(text) THEN "label" ELSE "caption"

find_figure_captions(pg) ==
    LET cand(b) == b.type = 0 /\ MatchesFigPattern(JoinTexts(b.lines))
        hits == SelectSeq(pg.blocks, cand)
    IN  [k \in DOMAIN hits |->
            [text |-> JoinTexts(hits[k].lines), rect |-> hits[k].bbox,
             type |-> CaptionType(JoinTexts(hits[k].lines))]]

RectsOf(caps) == [k \in DOMAIN caps |-> caps[k].rect]

IsMainCaption(c) == c.type = "caption"

IsLabelCaption(c) == c.type = "label"

(***************************************************************************)
(* extract_vectors, lines 195-236: the layout analysis                     *)
(***************************************************************************)
SetMax(S) == CHOOSE v \in S : \A w \in S : w <= v

SetMin(S) == CHOOSE v \in S : \A w \in S : v <= w

(* page.get_text("blocks"): (x0, y0, x1, y1, text); raises when the page's *)
(* text is unavailable.                                                    *)
TextBlocks(pg) ==
    [k \in DOMAIN pg.blocks |->
        [x0 |-> pg.blocks[k].bbox.x0, x1 |-> pg.blocks[k].bbox.x1,
         len |-> Len(JoinTexts(pg.blocks[k].lines))]]

detect_gutter_midline(pg) ==
    IF ~pg.text_ok \/ TextBlocks(pg) = << >> THEN pg.rect_w \div 2
    ELSE
        LET blocks == TextBlocks(pg)
            left_text == {k \in DOMAIN blocks :
                            blocks[k].len > 30 /\ 100 * blocks[k].x1 < 55 * pg.rect_w}
            right_text == {k \in DOMAIN blocks :
                            blocks[k].len > 30 /\ 100 * blocks[k].x0 > 45 * pg.rect_w}
        IN  IF Cardinality(left_text) > 2 /\ Cardinality(right_text) > 2
            THEN (SetMax({blocks[k].x1 : k \in left_text})
                  + SetMin({blocks[k].x0 : k \in right_text})) \div 2
            ELSE pg.rect_w \div 2

(* Text density: more than one block of over 50 characters on each side.   *)
DenseColumns(pg, mid) ==
    /\ pg.text_ok
    /\ LET blocks == TextBlocks(pg)
           long == {k \in DOMAIN blocks : blocks[k].len > 50}
           left_text_count == Cardinality({k \in long : blocks[k].x1 < mid})
           right_text_count ==
               Cardinality({k \in long : ~(blocks[k].x1 < mid) /\ blocks[k].x0 > mid})
       IN  left_text_count > 1 /\ right_text_count > 1

(* Side-by-side captions: a left and a right caption less than 300 pt apart. *)
SideBySideCaptions(main_caps, mid) ==
    \E a, b \in DOMAIN main_caps :
        /\ main_caps[a].rect.x1 < mid
        /\ main_caps[b].rect.x0 > mid
        /\ Abs(main_caps[a].rect.y0 - main_caps[b].rect.y0) < Pt(300)

DetectGutterGuard(pg, main_caps, mid) ==
    DenseColumns(pg, mid) \/ SideBySideCaptions(main_caps, mid)

(***************************************************************************)
(* extract_vectors, lines 245-290: the text harvest                        *)
(***************************************************************************)
IntersectsAny(r, rs) == \E k \in DOMAIN rs : Intersects(r, rs[k])

(* text_rects of one block: its spans outside the 40 pt page margins that  *)
(* touch no caption rect and hold some text.                               *)
BlockTextRects(pg, b, caption_rects) ==
    LET keep(ln) == /\ ~(ln.bbox.y0 < Pt(40) \/ ln.bbox.y1 > pg.rect_h - Pt(40))
                    /\ ~IntersectsAny(ln.bbox, caption_rects)
                    /\ Len(ln.text) > 0
        kept == SelectSeq(b.lines, keep)
    IN  [k \in DOMAIN kept |-> kept[k].bbox]

BlockLines(b) ==
    LET filled(ln) == ln.text # ""
        kept == SelectSeq(b.lines, filled)
    IN  [k \in DOMAIN kept |->
            [rect |-> kept[k].bbox, len |-> Len(kept[k].text), text |-> kept[k].text]]

IsObstacleBlock(b) ==
    LET clean_txt == JoinTexts(b.lines)
    IN  Len(clean_txt) > 150 /\ ~(Len(clean_txt) > 10 /\ StartsLikeCaption(clean_txt))

IsStrictBlock(b, caption_rects) ==
    LET clean_txt == JoinTexts(b.lines)
    IN  \/ IsObstacleBlock(b)
        \/ /\ ~(Len(clean_txt) > 150)
           /\ Len(clean_txt) > 50
           /\ ~IntersectsAny(b.bbox, caption_rects)

(* The four lists of the text harvest; all empty when the text dictionary  *)
(* raises (except: pass).                                                  *)
HarvestText(pg, caption_rects) ==
    IF ~pg.text_ok
    THEN [obstacles |-> << >>, strict_blocks |-> << >>, text_rects |-> << >>,
          all_text_blocks |-> << >>]
    ELSE
        LET isText(b) == b.type = 0
            tb == SelectSeq(pg.blocks, isText)
            obs(b) == IsObstacleBlock(b)
            strict(b) == IsStrictBlock(b, caption_rects)
            ob == SelectSeq(tb, obs)
            sb == SelectSeq(tb, strict)
        IN  [obstacles |-> [k \in DOMAIN ob |-> ob[k].bbox],
             strict_blocks |-> [k \in DOMAIN sb |-> sb[k].bbox],
             text_rects |->
                 Flatten([k \in DOMAIN tb |-> BlockTextRects(pg, tb[k], caption_rects)]),
             all_text_blocks |-> Flatten([k \in DOMAIN tb |-> BlockLines(tb[k])])]

(***************************************************************************)
(* extract_vectors, lines 292-314: label absorption and second clustering  *)
(***************************************************************************)
(* One visual object absorbs, in order, every text candidate close to what *)
(* it has grown to, except the candidates inside a strict block.           *)
RECURSIVE AbsorbText(_, _, _)
AbsorbText(current, candidates, strict_blocks) ==
    IF candidates = << >> THEN current
    ELSE LET tr == Head(candidates)
         IN  IF ~IntersectsAny(tr, strict_blocks) /\ rects_are_close(current, tr, Pt(15))
             THEN AbsorbText(Union(current, tr), Tail(candidates), strict_blocks)
             ELSE AbsorbText(current, Tail(candidates), strict_blocks)

TempObjects(objs, candidates, strict_blocks) ==
    [k \in DOMAIN objs |-> AbsorbText(objs[k], candidates, strict_blocks)]

GutterForMerge(guard, mid) == IF guard THEN Some(mid) ELSE None

(***************************************************************************)
(* extract_vectors, lines 316-532: the caption associator.  The page's     *)
(* layout is lay = [page_width, mid, guard]; visual objects are known by   *)
(* their index in visual_objects (the code uses id(obj)).                  *)
(***************************************************************************)
get_col_zone(rect, lay) ==
    IF 10 * Width(rect) > 6 * lay.page_width THEN "full"
    ELSE IF /\ rect.x1 < lay.mid + Pt(15)
            /\ rect.x1 < lay.mid + Pt(60)
            /\ rect.x1 <= lay.mid + Pt(5) THEN "left"
    ELSE IF /\ rect.x0 > lay.mid - Pt(15)
            /\ rect.x0 > lay.mid - Pt(60)
            /\ rect.x0 >= lay.mid - Pt(5) THEN "right"
    ELSE IF rect.x0 < lay.mid - Pt(10) /\ rect.x1 > lay.mid + Pt(10) THEN "mixed"
    ELSE IF Cx2(rect) < 2 * lay.mid THEN "left" ELSE "right"

(* c_col: the caption's zone, forced to its centroid's side under the guard. *)
CaptionZone(c_rect, lay) ==
    LET z == get_col_zone(c_rect, lay)
    IN  IF lay.guard /\ z \notin {"full", "mixed"}
        THEN (IF Cx2(c_rect) < 2 * lay.mid THEN "left" ELSE "right")
        ELSE z

(* Stable insertion sort of the captions by rect.y0 (list.sort). *)
RECURSIVE InsertByY0(_, _)
InsertByY0(sorted, c) ==
    IF sorted = << >> THEN <<c>>
    ELSE IF c.rect.y0 < Head(sorted).rect.y0 THEN <<c>> \o sorted
    ELSE <<Head(sorted)>> \o InsertByY0(Tail(sorted), c)

RECURSIVE SortByY0(_)
SortByY0(caps) ==
    IF caps = << >> THEN << >>
    ELSE InsertByY0(SortByY0(SubSeq(caps, 1, Len(caps) - 1)), caps[Len(caps)])

InitialCeilings ==
    [left |-> Pt(40), right |-> Pt(40), full |-> Pt(40), mixed |-> Pt(40)]

BaseCeiling(c_col, col_ceil) ==
    LET c0 == col_ceil.full
        c1 == IF c_col \in {"left", "mixed"} THEN Max(c0, col_ceil.left) ELSE c0
    IN  IF c_col \in {"right", "mixed"} THEN Max(c1, col_ceil.right) ELSE c1

(* Refine the ceiling with the obstacles of a relevant column, in order. *)
RECURSIVE RefineCeiling(_, _, _, _, _)
RefineCeiling(ceiling_y, obs, c_col, floor_y, lay) ==
    IF obs = << >> THEN ceiling_y
    ELSE
        LET o == Head(obs)
            obs_col == get_col_zone(o, lay)
            skipped == /\ c_col # "full" /\ obs_col # "full"
                       /\ c_col # obs_col /\ obs_col # "mixed"
        IN  IF ~skipped /\ o.y1 < floor_y /\ o.y1 > ceiling_y
            THEN RefineCeiling(o.y1, Tail(obs), c_col, floor_y, lay)
            ELSE RefineCeiling(ceiling_y, Tail(obs), c_col, floor_y, lay)

Relevant(c_col, obj_col, lay) ==
    IF lay.guard /\ c_col \in {"left", "right"}
    THEN obj_col \notin {"full", "mixed"} /\ c_col = obj_col
    ELSE \/ c_col \in {"full", "mixed"}
         \/ obj_col \in {"full", "mixed"}
         \/ c_col = obj_col

PrimaryPickUsedToo(objs, used, c_col, ceiling_y, floor_y, lay) ==
    LET picked(k) == /\ Relevant(c_col, get_col_zone(objs[k], lay), lay)
                     /\ Cy2(objs[k]) < 2 * floor_y
                     /\ Cy2(objs[k]) > 2 * ceiling_y
    IN  SelectSeq([k \in DOMAIN objs |-> k], picked)

(* The primary pick: the unused objects of a relevant column whose         *)
(* y-centroid lies strictly between ceiling and floor, in list order.      *)
PrimaryPick(objs, used, c_col, ceiling_y, floor_y, lay) ==
    LET picked(k) == /\ k \notin used
                     /\ Relevant(c_col, get_col_zone(objs[k], lay), lay)
                     /\ Cy2(objs[k]) < 2 * floor_y
                     /\ Cy2(objs[k]) > 2 * ceiling_y
    IN  SelectSeq([k \in DOMAIN objs |-> k], picked)

RECURSIVE UnionAll(_, _)
UnionAll(u, rs) == IF rs = << >> THEN u ELSE UnionAll(Union(u, Head(rs)), Tail(rs))

GroupUnion(objs, group) ==
    UnionAll(objs[group[1]], [k \in 1..(Len(group) - 1) |-> objs[group[k + 1]]])

has_one_label_nearby(rect, label_rects, threshold) ==
    \E k \in DOMAIN label_rects : rects_are_close(rect, label_rects[k], threshold)

(* nearby_count reaches 2: at least two labels are close to the rect. *)
has_subfigure_labels_nearby(rect, label_rects, threshold) ==
    Cardinality({k \in DOMAIN label_rects :
                    rects_are_close(rect, label_rects[k], threshold)}) >= 2

CrossingOff(u, obj, lay) == FALSE

(* is_crossing_gutter of the aligned expansion. *)
is_crossing_gutter(u, obj, lay) ==
    lay.guard /\ CentroidsOpposite(u, obj, lay.mid)

AlignedOverlapAny(u, obj) == TRUE

(* The vertical overlap check: more than half of the object's height. *)
AlignedOverlap(u, obj) ==
    2 * Max(0, Min(u.y1, obj.y1) - Max(u.y0, obj.y0)) > Height(obj)

has_labels(u, obj, label_rects) ==
    \/ has_subfigure_labels_nearby(u, label_rects, Pt(200))
    \/ has_subfigure_labels_nearby(obj, label_rects, Pt(200))

horizontal_threshold(u, obj, label_rects) ==
    IF has_labels(u, obj, label_rects) THEN Pt(150) ELSE Pt(40)

diagonal_threshold(u, obj, label_rects) ==
    IF has_labels(u, obj, label_rects) THEN Pt(150) ELSE Pt(40)

(* Whether the aligned expansion adds obj to the union u. *)
AlignedMerge(u, obj, label_rects, strict_blocks, lay) ==
    LET x_dist == IF obj.x1 < u.x0 THEN u.x0 - obj.x1
                  ELSE IF u.x1 < obj.x0 THEN obj.x0 - u.x1 ELSE 0
        y_dist == IF obj.y1 < u.y0 THEN u.y0 - obj.y1
                  ELSE IF u.y1 < obj.y0 THEN obj.y0 - u.y1 ELSE 0
        dist == Max(x_dist, y_dist)
        wanted == IF is_crossing_gutter(u, obj, lay) THEN FALSE
                  ELSE IF x_dist > 0 /\ y_dist <= 0
                       THEN x_dist < horizontal_threshold(u, obj, label_rects)
                  ELSE IF y_dist > 0 /\ x_dist <= 0 THEN y_dist < Pt(150)
                  ELSE dist < diagonal_threshold(u, obj, label_rects)
        gap_rect == IF dist > Pt(25) /\ obj.x1 < u.x0
                    THEN Some(Rect(obj.x1, Min(u.y0, obj.y0), u.x0, Max(u.y1, obj.y1)))
                    ELSE IF dist > Pt(25) /\ u.x1 < obj.x0
                    THEN Some(Rect(u.x1, Min(u.y0, obj.y0), obj.x0, Max(u.y1, obj.y1)))
                    ELSE None
        blocked == gap_rect # None /\ IntersectsAny(gap_rect[1], strict_blocks)
    IN  /\ AlignedOverlap(u, obj)
        /\ wanted
        /\ ~blocked

(* The thresholds computed for one comparison of the aligned expansion. *)
ThresholdCheck(u, obj, label_rects) ==
    [u |-> u, obj |-> obj,
     horizontal_threshold |-> horizontal_threshold(u, obj, label_rects),
     diagonal_threshold |-> diagonal_threshold(u, obj, label_rects)]

(* The aligned expansion from object k on: st = [u, group, used, steps,    *)
(* checks]; checks keeps, for reference, the thresholds of every           *)
(* comparison that passed the vertical overlap check.                      *)
RECURSIVE AlignedExpansion(_, _, _, _, _, _)
AlignedExpansion(st, k, objs, label_rects, strict_blocks, lay) ==
    IF k > Len(objs) THEN st
    ELSE IF k \in st.used
    THEN AlignedExpansion(st, k + 1, objs, label_rects, strict_blocks, lay)
    ELSE LET seen == IF AlignedOverlap(st.u, objs[k])
                     THEN st.checks \cup {ThresholdCheck(st.u, objs[k], label_rects)}
                     ELSE st.checks
         IN  IF AlignedMerge(st.u, objs[k], label_rects, strict_blocks, lay)
             THEN AlignedExpansion(
                     [u |-> Union(st.u, objs[k]), group |-> Append(st.group, k),
                      used |-> st.used \cup {k},
                      steps |-> st.steps \cup {<<st.u, objs[k]>>},
                      checks |-> seen],
                     k + 1, objs, label_rects, strict_blocks, lay)
             ELSE AlignedExpansion([st EXCEPT !.checks = seen], k + 1, objs,
                                   label_rects, strict_blocks, lay)

(* px_right: the right padding, stretched to the gutter for a left-column  *)
(* figure under the guard when some object reaches within 30 pt of the     *)
(* union's right edge.                                                     *)
RightPaddingOverGutter(union, objs, lay) ==
    IF /\ lay.guard
       /\ Cx2(union) < 2 * lay.mid
       /\ union.x1 < lay.mid - Pt(20)
    THEN Max(Pt(20), lay.mid - union.x1 + Pt(10))
    ELSE Pt(20)

RightPadding(union, objs, lay) ==
    IF /\ lay.guard
       /\ Cx2(union) < 2 * lay.mid
       /\ union.x1 < lay.mid - Pt(20)
       /\ \E k \in DOMAIN objs : objs[k].x1 > union.x1 - Pt(30)
    THEN Max(Pt(20), lay.mid - union.x1 - Pt(10))
    ELSE Pt(20)

EffectiveCeilingWide(ceiling_y) == Max(Pt(40), ceiling_y - Pt(20))

EffectiveCeiling(ceiling_y) == Max(Pt(40), ceiling_y - Pt(10))

FloorNoGap(floor_y) == floor_y + Pt(5)

FloorWithGap(floor_y) == floor_y - Pt(5)

FinalRect(union, objs, ceiling_y, floor_y, lay) ==
    Rect(Max(0, union.x0 - Pt(20)),
         Max(EffectiveCeiling(ceiling_y), union.y0 - Pt(24)),
         Min(lay.page_width, union.x1 + RightPadding(union, objs, lay)),
         Min(FloorWithGap(floor_y), union.y1 + Pt(24)))

UpdateCeilingsAllSides(col_ceil, c_col, c_rect) ==
    IF c_col \in {"full", "mixed"}
    THEN [col_ceil EXCEPT !.full = c_rect.y1, !.left = c_rect.y1, !.right = c_rect.y1]
    ELSE [col_ceil EXCEPT ![c_col] = c_rect.y1]

(* Lines 525-532, after the group is made or not. *)
UpdateCeilings(col_ceil, c_col, c_rect) ==
    IF c_col = "full" THEN [col_ceil EXCEPT !.full = c_rect.y1]
    ELSE IF c_col = "mixed" THEN [col_ceil EXCEPT !.left = c_rect.y1, !.right = c_rect.y1]
    ELSE [col_ceil EXCEPT ![c_col] = c_rect.y1]

(* One iteration of "for cap in main_captions": what it leaves in          *)
(* caption_groups, used_object_ids and col_ceilings, and the unions the    *)
(* aligned expansion made.  A group keeps the caption's text and the final *)
(* rect as in the code and, for reference, the caption's rect and zone,    *)
(* the union of its objects, their positions in visual_objects (members)   *)
(* and the ceiling before and after refinement.                            *)
AssociateOne(cap, objs, groups, used, col_ceil, obstacles, label_rects, strict_blocks, lay) ==
    LET c_rect == cap.rect
        c_col == CaptionZone(c_rect, lay)
        floor_y == c_rect.y0
        ceiling_y == RefineCeiling(BaseCeiling(c_col, col_ceil), obstacles,
                                   c_col, floor_y, lay)
        primary == PrimaryPick(objs, used, c_col, ceiling_y, floor_y, lay)
        start == [u |-> GroupUnion(objs, primary), group |-> primary,
                  used |-> used \cup SeqToSet(primary), steps |-> {}, checks |-> {}]
        grown == IF primary = << >>
                 THEN [u |-> c_rect, group |-> << >>, used |-> used, steps |-> {},
                       checks |-> {}]
                 ELSE AlignedExpansion(start, 1, objs, label_rects, strict_blocks, lay)
        union == GroupUnion(objs, grown.group)
    IN  [groups |-> IF grown.group = << >> THEN groups
                    ELSE Append(groups,
                            [text |-> cap.text,
                             rect |-> FinalRect(union, objs, ceiling_y, floor_y, lay),
                             cap_rect |-> c_rect, c_col |-> c_col, union |-> union,
                             members |-> grown.group,
                             base_ceiling |-> BaseCeiling(c_col, col_ceil),
                             ceiling_y |-> ceiling_y]),
         used |-> grown.used,
         col_ceil |-> UpdateCeilings(col_ceil, c_col, c_rect),
         steps |-> grown.steps,
         checks |-> grown.checks]

(***************************************************************************)
(* extract_vectors, lines 534-647: the orphan resolver.  The dicts of      *)
(* caption_groups are known as <<"group", k>> and the dicts of             *)
(* all_captions_for_matching as <<"match", k>>: they are different objects *)
(* with different id()s.                                                   *)
(***************************************************************************)
FinalCaptionsMap(groups) ==
    [g \in {<<"group", k>> : k \in DOMAIN groups} |-> groups[g[2]]]

AllCaptionsForMatching(main_caps) ==
    [k \in DOMAIN main_caps |-> [text |-> main_caps[k].text, rect |-> main_caps[k].rect]]

(* The orphans made of one unused object: its two halves when it straddles *)
(* the midline under the guard, each kept if wider than 20 pt.             *)
OrphansFromObj(obj, lay) ==
    IF lay.guard /\ obj.x0 < lay.mid - Pt(10) /\ obj.x1 > lay.mid + Pt(10)
    THEN LET left_rect == Rect(obj.x0, obj.y0, lay.mid - Pt(5), obj.y1)
             right_rect == Rect(lay.mid + Pt(5), obj.y0, obj.x1, obj.y1)
         IN  (IF Width(left_rect) > Pt(20) THEN <<left_rect>> ELSE << >>)
             \o (IF Width(right_rect) > Pt(20) THEN <<right_rect>> ELSE << >>)
    ELSE <<obj>>

OrphanMatches(orphan, cap_rect, lay) ==
    LET same_col ==
            IF lay.guard
            THEN \/ Cx2(orphan) < 2 * lay.mid /\ cap_rect.x0 < lay.mid
                 \/ Cx2(orphan) > 2 * lay.mid /\ cap_rect.x0 > lay.mid
            ELSE Abs(Cx2(orphan) - Cx2(cap_rect)) < 2 * Pt(100)
        is_below == /\ cap_rect.y0 >= orphan.y1 - Pt(150)
                    /\ cap_rect.y0 < orphan.y1 + Pt(400)
        is_aligned == /\ orphan.x0 < cap_rect.x1 + Pt(50)
                      /\ orphan.x1 > cap_rect.x0 - Pt(50)
    IN  same_col /\ is_below /\ is_aligned

(* The first caption, in list order, that is not marked for deletion and   *)
(* matches the orphan; 0 when there is none.                               *)
FirstMatch(orphan, caps, captions_to_delete, lay) ==
    LET hits == {k \in DOMAIN caps :
                    /\ <<"match", k>> \notin captions_to_delete
                    /\ OrphanMatches(orphan, caps[k].rect, lay)}
    IN  IF hits = {} THEN 0 ELSE SetMin(hits)

(* "for orphan in orphans_from_obj": st = [export, captions_to_delete].  An *)
(* exported entry is the rect, with the rect of the caption it was cropped *)
(* to (None for an orphan exported whole).                                 *)
RECURSIVE ReassociateOrphans(_, _, _, _)
ReassociateOrphans(st, orphans, caps, lay) ==
    IF orphans = << >> THEN st
    ELSE
        LET orphan == Head(orphans)
            g == FirstMatch(orphan, caps, st.captions_to_delete, lay)
            cropped_orphan ==
                Rect(orphan.x0, orphan.y0, orphan.x1, caps[g].rect.y0 - Pt(5))
            next ==
                IF g # 0
                THEN [export |->
                        IF Height(cropped_orphan) > Pt(20)
                        THEN Append(st.export,
                                [rect |-> cropped_orphan, cap_rect |-> Some(caps[g].rect),
                                 orphan |-> orphan])
                        ELSE st.export,
                      captions_to_delete |-> st.captions_to_delete \cup {<<"match", g>>}]
                ELSE IF lay.guard /\ Width(orphan) < Pt(15) THEN st
                ELSE [st EXCEPT !.export =
                        Append(@, [rect |-> orphan, cap_rect |-> None, orphan |-> orphan])]
        IN  ReassociateOrphans(next, Tail(orphans), caps, lay)

(* "for obj in visual_objects", from object k on: st = [export, map]; the  *)
(* captions marked by an object's orphans are deleted from the map after   *)
(* the object, if the map has them.  An exported entry keeps, for          *)
(* reference, the position k of the object it was made of and the orphan   *)
(* it was cropped from.                                                    *)
RECURSIVE ResolveOrphans(_, _, _, _, _, _)
ResolveOrphans(st, k, objs, used, caps, lay) ==
    IF k > Len(objs) THEN st
    ELSE IF k \notin used /\ Width(objs[k]) > Pt(20) /\ Height(objs[k]) > Pt(20)
    THEN
        LET r == ReassociateOrphans([export |-> << >>, captions_to_delete |-> {}],
                                    OrphansFromObj(objs[k], lay), caps, lay)
            keep == DOMAIN st.map \ r.captions_to_delete
            made == [n \in DOMAIN r.export |->
                        [rect |-> r.export[n].rect, cap_rect |-> r.export[n].cap_rect,
                         orphan |-> r.export[n].orphan, obj |-> k]]
        IN  ResolveOrphans([export |-> st.export \o made,
                            map |-> [g \in keep |-> st.map[g]]],
                           k + 1, objs, used, caps, lay)
    ELSE ResolveOrphans(st, k + 1, objs, used, caps, lay)

(* valid_final_rects with, for each region, the caption rect it belongs    *)
(* to, the positions of the objects it is made of and the orphan it was    *)
(* cropped from: the groups left in final_captions_map in insertion order, *)
(* then the exported orphans.                                              *)
ValidFinalRegions(groups, resolved) ==
    LET left(k) == <<"group", k>> \in DOMAIN resolved.map
        idx == SelectSeq([k \in DOMAIN groups |-> k], left)
    IN  [n \in DOMAIN idx |->
            [rect |-> groups[idx[n]].rect, kind |-> "caption",
             cap_rect |-> Some(groups[idx[n]].cap_rect),
             objs |-> SeqToSet(groups[idx[n]].members), orphan |-> None]]
        \o [n \in DOMAIN resolved.export |->
            [rect |-> resolved.export[n].rect,
             kind |-> IF resolved.export[n].cap_rect = None THEN "orphan" ELSE "cropped",
             cap_rect |-> resolved.export[n].cap_rect,
             objs |-> {resolved.export[n].obj},
             orphan |-> Some(resolved.export[n].orphan)]]

(***************************************************************************)
(* extract_vectors, lines 693-824: the eraser of one region                *)
(***************************************************************************)
(* fig_col: the column of the region, from its width, span and centre. *)
fig_col(rect, pg, mid) ==
    IF 10 * Width(rect) > 6 * pg.rect_w THEN "full"
    ELSE IF rect.x0 < mid - Pt(75) /\ rect.x1 > mid + Pt(75) THEN "full"
    ELSE IF 2 * rect.x0 + Width(rect) < 2 * mid THEN "left" ELSE "right"

(* relevant_visuals: the objects that intersect the region and are wider   *)
(* and higher than 5 pt.                                                   *)
relevant_visuals(objs, rect) ==
    LET rel(o) == Intersects(o, rect) /\ Height(o) > Pt(5) /\ Width(o) > Pt(5)
    IN  SelectSeq(objs, rel)

(* The visual bounds V = (vis_x0, vis_y0, vis_x1, vis_y1) of the region;   *)
(* None when no object is relevant, and then nothing is erased.            *)
VisualBounds(objs, rect) ==
    LET rv == relevant_visuals(objs, rect)
    IN  IF rv = << >> THEN None
        ELSE Some(Rect(SetMin({rv[k].x0 : k \in DOMAIN rv}),
                       SetMin({rv[k].y0 : k \in DOMAIN rv}),
                       SetMax({rv[k].x1 : k \in DOMAIN rv}),
                       SetMax({rv[k].y1 : k \in DOMAIN rv})))

top_strict_y(V) == V.y0 - Pt(10)

top_buffer_y(V) == V.y0

right_safe_x(V) == V.x1 + Pt(8)

left_safe_x(V) == V.x0 - Pt(50)

(* The lines the eraser looks at: they intersect the region and do not     *)
(* start below the visual bounds.                                          *)
EraseCandidate(item, rect, V) ==
    Intersects(item.rect, rect) /\ ~(item.rect.y0 > V.y1)

(* CASE 0: the line's centre is in the column opposite to the region's. *)
OppositeColumn(item, col, mid) ==
    \/ col = "left" /\ Cx2(item.rect) > 2 * mid
    \/ col = "right" /\ Cx2(item.rect) < 2 * mid

(* The if / elif chain of lines 761-794: the branch the line falls in; the *)
(* first branch is not entered when CASE 0 already chose to erase.         *)
ChainBranch(item, V, opposite) ==
    IF ~opposite /\ item.rect.y1 < top_strict_y(V) THEN "Top Strict"
    ELSE IF item.rect.y1 < top_buffer_y(V) THEN "Top Buffer"
    ELSE IF item.rect.y0 < V.y0 + Pt(10) THEN "Top Inner Guard"
    ELSE IF item.rect.x0 > right_safe_x(V) THEN "Right Side"
    ELSE IF item.rect.x1 < left_safe_x(V) THEN "Left Side"
    ELSE "none"

(* Whether the branch sets should_erase. *)
BranchErases(branch, text_len) ==
    \/ branch = "Top Strict" /\ text_len > 5
    \/ branch = "Top Buffer" /\ text_len > 15
    \/ branch = "Top Inner Guard" /\ text_len > 25
    \/ branch = "Right Side"
    \/ branch = "Left Side" /\ text_len > 25

SideBranchOnly(branch) == branch \in {"Right Side", "Left Side"}

(* Whether a branch that erases sets is_side_erasure. *)
BranchIsSide(branch) == branch \in {"Top Strict", "Right Side", "Left Side"}

(* should_erase, is_side_erasure and reason of one candidate line. *)
EraseDecision(item, rect, V, pg, mid) ==
    LET col == fig_col(rect, pg, mid)
        opposite == OppositeColumn(item, col, mid)
        branch == ChainBranch(item, V, opposite)
        fired == BranchErases(branch, item.len)
    IN  [should_erase |-> opposite \/ fired,
         is_side_erasure |-> opposite \/ (fired /\ BranchIsSide(branch)),
         reason |-> IF fired THEN branch
                    ELSE IF opposite /\ col = "left" THEN "Opposite Col (Right)"
                    ELSE IF opposite THEN "Opposite Col (Left)"
                    ELSE ""]

(* Lines 796-806: a line chosen for erasure that starts like a caption is  *)
(* kept unless is_side_erasure is set.                                     *)
IsPainted(item, d) ==
    /\ d.should_erase
    /\ ~(StartsLikeCaption(item.text) /\ ~d.is_side_erasure)

(* What the eraser paints on the scratch page of the region: for each      *)
(* painted line, its rect, text, reason and the rect drawn in the local    *)
(* coordinates of the crop.                                                *)
Eraser(rect, pg, mid, objs, text_lines) ==
    LET Vb == VisualBounds(objs, rect)
    IN  IF Vb = None THEN {}
        ELSE
            {[rect |-> text_lines[k].rect, text |-> text_lines[k].text,
              reason |-> EraseDecision(text_lines[k], rect, Vb[1], pg, mid).reason
                         \o (IF StartsLikeCaption(text_lines[k].text)
                             THEN " + Caption Override" ELSE ""),
              local_rect |->
                  LET ix == Intersection(text_lines[k].rect, rect)
                  IN  Rect(ix.x0 - rect.x0, ix.y0 - rect.y0,
                           ix.x1 - rect.x0, ix.y1 - rect.y0)] :
             k \in {n \in DOMAIN text_lines :
                      /\ EraseCandidate(text_lines[n], rect, Vb[1])
                      /\ IsPainted(text_lines[n],
                                   EraseDecision(text_lines[n], rect, Vb[1], pg, mid))}}

(***************************************************************************)
(* trim_pixmap and the pixel trim of a rendered region                     *)
(***************************************************************************)
(* A pixmap is its width, its height and its gray samples. The samples     *)
(* that are not pure white (255) are listed in "ink" as [x, y, v]; every   *)
(* other sample is 255. Pixel coordinates are whole pixels.                *)
Margin == 8

MaxInk == 2

PixSizes == {1, 20}

InkXs == {0, 9, 10, 19}

InkYs == {0, 10, 19}

InkVals == {249, 250}

InkPalette(w, h) ==
    {[x |-> a, y |-> b, v |-> c] :
        a \in {n \in InkXs : n < w}, b \in {n \in InkYs : n < h}, c \in InkVals}

InkSets(w, h) ==
    {s \in {SeqToSet(q) : q \in SeqsUpTo(InkPalette(w, h), MaxInk)} :
        \A d, e \in s : (d.x = e.x /\ d.y = e.y) => d = e}

Pixmaps ==
    UNION {{[width |-> w, height |-> h, ink |-> s] : s \in InkSets(w, h)} :
             w \in PixSizes, h \in PixSizes}

(* gray.samples[y * width + x] *)
Sample(pix, x, y) ==
    IF \E d \in pix.ink : d.x = x /\ d.y = y
    THEN (CHOOSE d \in pix.ink : d.x = x /\ d.y = y).v
    ELSE 255

NotPureWhiteBelow249(pixel_val) == pixel_val < 249

(* "if pixel_val < 250: # Anything not pure white" *)
NotPureWhite(pixel_val) == pixel_val < 250

(* The body of the inner loop. *)
ScanPixel(acc, x, y, pixel_val) ==
    IF NotPureWhite(pixel_val)
    THEN [found |-> TRUE,
          xmin |-> IF x < acc.xmin THEN x ELSE acc.xmin,
          xmax |-> IF x > acc.xmax THEN x ELSE acc.xmax,
          ymin |-> IF y < acc.ymin THEN y ELSE acc.ymin,
          ymax |-> IF y > acc.ymax THEN y ELSE acc.ymax]
    ELSE acc

(* "for x, pixel_val in enumerate(row)" from column x on. The accumulator   *)
(* is evaluated at each step (the test on "found") before the next.        *)
RECURSIVE ScanRow(_, _, _, _)
ScanRow(pix, y, x, acc) ==
    IF x >= pix.width THEN acc
    ELSE LET after == ScanPixel(acc, x, y, Sample(pix, x, y))
         IN  IF after.found THEN ScanRow(pix, y, x + 1, after)
             ELSE ScanRow(pix, y, x + 1, after)

(* "for y in range(height)" from row y on. *)
RECURSIVE ScanRows(_, _, _)
ScanRows(pix, y, acc) ==
    IF y >= pix.height THEN acc
    ELSE LET after == ScanRow(pix, y, 0, acc)
         IN  IF after.found THEN ScanRows(pix, y + 1, after)
             ELSE ScanRows(pix, y + 1, after)

(* trim_pixmap(pix): None when the grayscale conversion raises or when no  *)
(* sample is below 250, else the IRect of the samples below 250.           *)
trim_pixmap(pix, gray_ok) ==
    IF ~gray_ok THEN None
    ELSE LET acc == ScanRows(pix, 0, [found |-> FALSE,
                                      xmin |-> pix.width, ymin |-> pix.height,
                                      xmax |-> 0, ymax |-> 0])
         IN  IF ~acc.found THEN None
             ELSE Some(Rect(acc.xmin, acc.ymin, acc.xmax + 1, acc.ymax + 1))

(* The margin box of the caller, clipped to the pixmap. *)
final_bbox(pix, trim_bbox) ==
    Rect(Max(0, trim_bbox.x0 - Margin),
         Max(0, trim_bbox.y0 - Margin),
         Min(pix.width, trim_bbox.x1 + Margin),
         Min(pix.height, trim_bbox.y1 + Margin))

(* fitz.Pixmap(colorspace, box, alpha) then new_pix.copy(pix, box): the    *)
(* samples of pix inside box, indexed from the corner of box.              *)
Copy(pix, box) ==
    [width |-> box.x1 - box.x0,
     height |-> box.y1 - box.y0,
     ink |-> {[x |-> d.x - box.x0, y |-> d.y - box.y0, v |-> d.v] :
                d \in {e \in pix.ink : /\ box.x0 <= e.x /\ e.x < box.x1
                                       /\ box.y0 <= e.y /\ e.y < box.y1}}]

(* "PIXEL-LEVEL TRIMMING": the pixmap that is saved. *)
PixelTrim(pix, gray_ok) ==
    LET trim_bbox == trim_pixmap(pix, gray_ok)
    IN  IF trim_bbox = None THEN pix
        ELSE Copy(pix, final_bbox(pix, trim_bbox[1]))

(***************************************************************************)
(* The state of a run of the tool, and of the clusterer's driver           *)
(***************************************************************************)
MaxPages == 2

VARIABLES
    pc,                  \* where the run is: "main", "open", "mkdir", "pages",
                         \* "captions", "layout", "text", "labels", "associate",
                         \* "regions", "summary", "exited", "crashed"
    argc,                \* len(sys.argv)
    n_pages,             \* the number of pages of src_doc
    src_doc,             \* the variable src_doc: None, or Some("open") (never closed)
    temp_doc,            \* the variable temp_doc: None, or Some(<<i, j>>), the open
                         \* scratch document of region j of page i
    exit_code,           \* None while running, Some(status) once the process ended
    total_images,
    files,               \* the files written so far: [name, by |-> <<i, j>>]
    warnings,            \* the regions <<i, j>> a warning was printed for
    attempted,           \* the regions <<i, j>> whose "Processing ..." line was printed
    painted,             \* the lines painted white on the scratch page of the last
                         \* region of this page that was saved
    i,                   \* index of the page being enumerated (-1 before the loop)
    page,                \* the page being processed
    page_image_rects,
    visual_objects,
    captions,
    main_captions,
    gutter_guard_active,
    page_mid_x,
    obstacles,
    strict_blocks,
    text_rects,
    all_text_blocks,
    caption_groups,
    used_object_ids,
    col_ceilings,
    cap_k,               \* position of "for cap in main_captions" (1-based)
    valid_final_rects,   \* the regions of the page: [rect, kind, cap_rect, objs,
                         \* orphan]
    j,                   \* index of the region being processed
    merge_steps,         \* the unions made on this page: [stage, a, b]
    threshold_checks,    \* the thresholds the aligned expansion computed on
                         \* this page: [u, obj, horizontal_threshold,
                         \* diagonal_threshold]
    m_pc,                \* the clusterer's driver: "idle", "input", "merged",
                         \* "permuted", "again"
    m_rects,             \* merge_rects' argument rects
    m_threshold,         \* its argument threshold
    m_gutter,            \* its argument gutter_midline (None or Some(x))
    m_result,            \* what merge_rects returned for m_rects
    m_other,             \* what it returned for a permutation, or for its own output
    t_pc,                \* the pixel trim's driver: "idle", "input", "trimmed"
    t_pix,               \* the rendered pixmap
    t_gray_ok,           \* whether fitz.Pixmap(fitz.csGRAY, pix) succeeds
    t_trim_bbox,         \* what trim_pixmap returned (None or Some(IRect))
    t_final_bbox,        \* the margin box (None when trimming is skipped)
    t_new_pix            \* the pixmap that is saved

mvars == <<m_pc, m_rects, m_threshold, m_gutter, m_result, m_other>>

tvars == <<t_pc, t_pix, t_gray_ok, t_trim_bbox, t_final_bbox, t_new_pix>>

inVars == <<argc, n_pages>>

handleVars == <<src_doc, temp_doc>>

outVars == <<total_images, files, warnings, attempted, painted>>

drawVars == <<page_image_rects, visual_objects>>

capVars == <<captions, main_captions>>

layVars == <<gutter_guard_active, page_mid_x>>

textVars == <<obstacles, strict_blocks, text_rects, all_text_blocks>>

assocVars == <<caption_groups, used_object_ids, col_ceilings, cap_k>>

regionVars == <<valid_final_rects, j>>

pageVars ==
    <<i, page, drawVars, capVars, layVars, textVars, assocVars, regionVars, merge_steps,
      threshold_checks>>

runVars == <<pc, inVars, handleVars, exit_code, outVars, pageVars>>

vars == <<runVars, mvars, tvars>>

(* A page without content: what "page" is before the first page is read. *)
NoPage == MkPage(<< >>, << >>, << >>)

(* The per-page locals before a page sets them. *)
PageLocalsCleared ==
    /\ page_image_rects = << >>
    /\ visual_objects = << >>
    /\ captions = << >>
    /\ main_captions = << >>
    /\ gutter_guard_active = FALSE
    /\ page_mid_x = PageW \div 2
    /\ obstacles = << >>
    /\ strict_blocks = << >>
    /\ text_rects = << >>
    /\ all_text_blocks = << >>
    /\ caption_groups = << >>
    /\ used_object_ids = {}
    /\ col_ceilings = InitialCeilings
    /\ cap_k = 1
    /\ valid_final_rects = << >>
    /\ j = 0
    /\ merge_steps = {}
    /\ threshold_checks = {}

RunStart ==
    /\ n_pages = 0
    /\ src_doc = None
    /\ temp_doc = None
    /\ exit_code = None
    /\ total_images = 0
    /\ files = {}
    /\ warnings = {}
    /\ attempted = {}
    /\ painted = {}
    /\ i = -1
    /\ page = NoPage
    /\ PageLocalsCleared

MergeIdle ==
    /\ m_pc = "idle"
    /\ m_rects = << >>
    /\ m_threshold = Pt(15)
    /\ m_gutter = None
    /\ m_result = << >>
    /\ m_other = << >>

TrimIdle ==
    /\ t_pc = "idle"
    /\ t_pix = [width |-> 1, height |-> 1, ink |-> {}]
    /\ t_gray_ok = TRUE
    /\ t_trim_bbox = None
    /\ t_final_bbox = None
    /\ t_new_pix = t_pix

(***************************************************************************)
(* The clusterer on its own                                                *)
(***************************************************************************)
MergeInit ==
    /\ pc = "idle"
    /\ argc = 0
    /\ RunStart
    /\ m_pc = "input"
    /\ m_rects \in SeqsUpTo(ClusterPalette, MaxRects)
    /\ m_threshold \in ClusterThresholds
    /\ m_gutter \in ClusterMidlines
    /\ m_result = << >>
    /\ m_other = << >>
    /\ TrimIdle

CallMerge ==
    /\ m_pc = "input"
    /\ m_result' = merge_rects(m_rects, m_threshold, m_gutter)
    /\ m_pc' = "merged"
    /\ UNCHANGED <<m_rects, m_threshold, m_gutter, m_other, runVars, tvars>>

CallMergePermuted ==
    /\ m_pc = "merged"
    /\ \E p \in Bijections(Len(m_rects)) :
         m_other' = merge_rects(Permutes(m_rects, p), m_threshold, m_gutter)
    /\ m_pc' = "permuted"
    /\ UNCHANGED <<m_rects, m_threshold, m_gutter, m_result, runVars, tvars>>

CallMergeAgain ==
    /\ m_pc = "merged"
    /\ m_other' = merge_rects(m_result, m_threshold, m_gutter)
    /\ m_pc' = "again"
    /\ UNCHANGED <<m_rects, m_threshold, m_gutter, m_result, runVars, tvars>>

MergeNext == CallMerge \/ CallMergePermuted \/ CallMergeAgain

SpecMerge == MergeInit /\ [][MergeNext]_vars

(* C4: merge_rects is order-independent: any permutation of the input      *)
(* list gives the same set of cluster rects, with the same threshold and   *)
(* the same gutter_midline (None or a value).                              *)
C4_OrderIndependent ==
    m_pc = "permuted" => SeqToSet(m_other) = SeqToSet(m_result)

(* C5: merge_rects is idempotent: applied to its own output, with the same *)
(* threshold and gutter_midline, it returns the same list unchanged.       *)
C5_Idempotent ==
    m_pc = "again" => m_other = m_result

(* C5's case: a re-run on an output that was really clustered (a union was *)
(* made) and still has several clusters to compare.                        *)
C5_Witness ==
    /\ m_pc = "again"
    /\ Len(m_result) >= 2
    /\ Len(m_result) < Len(m_rects)

(***************************************************************************)
(* The pixel trim on its own                                               *)
(***************************************************************************)
TrimInit ==
    /\ pc = "idle"
    /\ argc = 0
    /\ RunStart
    /\ MergeIdle
    /\ t_pc = "input"
    /\ t_pix \in Pixmaps
    /\ t_gray_ok \in BOOLEAN
    /\ t_trim_bbox = None
    /\ t_final_bbox = None
    /\ t_new_pix = t_pix

(* Lines 828-842: trim_pixmap, the margin box and the copy. *)
CallTrim ==
    /\ t_pc = "input"
    /\ t_pc' = "trimmed"
    /\ t_trim_bbox' = trim_pixmap(t_pix, t_gray_ok)
    /\ t_final_bbox' = IF t_trim_bbox' = None THEN None
                       ELSE Some(final_bbox(t_pix, t_trim_bbox'[1]))
    /\ t_new_pix' = PixelTrim(t_pix, t_gray_ok)
    /\ UNCHANGED <<t_pix, t_gray_ok, runVars, mvars>>

TrimNext == CallTrim

SpecTrim == TrimInit /\ [][TrimNext]_vars

(***************************************************************************)
(* A run of the tool: __main__ and extract_vectors                         *)
(***************************************************************************)
Init ==
    /\ pc = "main"
    /\ argc \in 1..3
    /\ RunStart
    /\ MergeIdle
    /\ TrimIdle

(* Lines 870-873: no path argument ends the run with status 1. *)
Main ==
    /\ pc = "main"
    /\ IF argc < 2
       THEN pc' = "exited" /\ exit_code' = Some(1)
       ELSE pc' = "open" /\ exit_code' = exit_code
    /\ UNCHANGED <<inVars, handleVars, outVars, pageVars, mvars, tvars>>

(* Lines 133-140: a missing file, or a file fitz.open cannot open, ends    *)
(* the run with status 1; otherwise src_doc holds the open document.       *)
OpenDocument ==
    /\ pc = "open"
    /\ \E exists \in BOOLEAN, opens \in BOOLEAN :
         IF exists /\ opens
         THEN /\ \E n \in 1..MaxPages : n_pages' = n
              /\ src_doc' = Some("open")
              /\ pc' = "mkdir"
              /\ exit_code' = exit_code
         ELSE /\ pc' = "exited"
              /\ exit_code' = Some(1)
              /\ UNCHANGED <<n_pages, src_doc>>
    /\ UNCHANGED <<argc, temp_doc, outVars, pageVars, mvars, tvars>>

(* Lines 142-149: the output directory is made when absent; os.makedirs    *)
(* may raise, and nothing catches it: the interpreter ends with status 1.  *)
PrepareOutput ==
    /\ pc = "mkdir"
    /\ \E made \in BOOLEAN :
         IF made
         THEN pc' = "pages" /\ exit_code' = exit_code
         ELSE pc' = "crashed" /\ exit_code' = Some(1)
    /\ UNCHANGED <<inVars, handleVars, outVars, pageVars, mvars, tvars>>

StepsOf(stage, pairs) == {[stage |-> stage, a |-> pr[1], b |-> pr[2]] : pr \in pairs}

(* Lines 151-188: the next page of the document.  A page without drawings  *)
(* is skipped; otherwise its images and visible paths are collected and    *)
(* clustered (threshold 15, no midline).  The locals of the previous page  *)
(* are dead from here on and are cleared.                                  *)
NextPage ==
    /\ pc = "pages"
    /\ i + 1 < n_pages
    /\ i' = i + 1
    /\ \E pg \in Pages :
         /\ page' = pg
         /\ IF pg.drawings = << >>
            THEN /\ pc' = "pages"
                 /\ page_image_rects' = << >>
                 /\ visual_objects' = << >>
                 /\ merge_steps' = {}
            ELSE LET imgs == HarvestImages(pg)
                     run == MergeRun(HarvestRects(pg, imgs), Pt(15), None)
                 IN  /\ pc' = "captions"
                     /\ page_image_rects' = imgs
                     /\ visual_objects' = run.clusters
                     /\ merge_steps' = StepsOf("A", run.steps)
    /\ captions' = << >>
    /\ main_captions' = << >>
    /\ gutter_guard_active' = FALSE
    /\ page_mid_x' = PageW \div 2
    /\ obstacles' = << >>
    /\ strict_blocks' = << >>
    /\ text_rects' = << >>
    /\ all_text_blocks' = << >>
    /\ caption_groups' = << >>
    /\ used_object_ids' = {}
    /\ col_ceilings' = InitialCeilings
    /\ cap_k' = 1
    /\ valid_final_rects' = << >>
    /\ j' = 0
    /\ threshold_checks' = {}
    /\ UNCHANGED <<inVars, handleVars, exit_code, outVars, mvars, tvars>>

(* Line 151: the document has no more pages. *)
PagesDone ==
    /\ pc = "pages"
    /\ i + 1 >= n_pages
    /\ pc' = "summary"
    /\ UNCHANGED <<inVars, handleVars, exit_code, outVars, pageVars, mvars, tvars>>

(* Lines 190-193: find_figure_captions on a page whose text is available. *)
HarvestCaptions ==
    /\ pc = "captions"
    /\ page.text_ok
    /\ captions' = find_figure_captions(page)
    /\ main_captions' = SelectSeq(find_figure_captions(page), IsMainCaption)
    /\ pc' = "layout"
    /\ UNCHANGED <<inVars, handleVars, exit_code, outVars, i, page, drawVars,
                   layVars, textVars, assocVars, regionVars, merge_steps,
                   threshold_checks, mvars, tvars>>

(* Line 191 with line 91: page.get_text("dict") raises inside              *)
(* find_figure_captions, outside every try: the exception leaves           *)
(* extract_vectors and the interpreter ends with a traceback and status 1. *)
HarvestCaptionsRaises ==
    /\ pc = "captions"
    /\ ~page.text_ok
    /\ pc' = "crashed"
    /\ exit_code' = Some(1)
    /\ UNCHANGED <<inVars, handleVars, outVars, pageVars, mvars, tvars>>

(* Lines 195-243: the midline and the gutter guard. *)
AnalyzeLayout ==
    /\ pc = "layout"
    /\ page_mid_x' = detect_gutter_midline(page)
    /\ gutter_guard_active' =
           DetectGutterGuard(page, main_captions, detect_gutter_midline(page))
    /\ pc' = "text"
    /\ UNCHANGED <<inVars, handleVars, exit_code, outVars, i, page, drawVars,
                   capVars, textVars, assocVars, regionVars, merge_steps,
                   threshold_checks, mvars, tvars>>

(* Lines 245-290: obstacles, strict blocks, text rects and text lines. *)
HarvestTextBlocks ==
    /\ pc = "text"
    /\ LET h == HarvestText(page, RectsOf(captions))
       IN  /\ obstacles' = h.obstacles
           /\ strict_blocks' = h.strict_blocks
           /\ text_rects' = h.text_rects
           /\ all_text_blocks' = h.all_text_blocks
    /\ pc' = "labels"
    /\ UNCHANGED <<inVars, handleVars, exit_code, outVars, i, page, drawVars,
                   capVars, layVars, assocVars, regionVars, merge_steps,
                   threshold_checks, mvars, tvars>>

LabelRects(caps) == RectsOf(SelectSeq(caps, IsLabelCaption))

Layout == [page_width |-> page.rect_w, mid |-> page_mid_x, guard |-> gutter_guard_active]

(* Lines 292-341: the visual objects absorb nearby labels and are          *)
(* clustered again (threshold 30, the midline under the guard) when there  *)
(* are objects and text candidates; then the captions are sorted and the   *)
(* associator's bookkeeping starts empty.                                  *)
AbsorbLabels ==
    /\ pc = "labels"
    /\ LET all_text_candidates == text_rects \o LabelRects(captions)
       IN  IF visual_objects # << >> /\ all_text_candidates # << >>
           THEN LET run == MergeRun(TempObjects(visual_objects, all_text_candidates,
                                                strict_blocks),
                                    Pt(30),
                                    GutterForMerge(gutter_guard_active, page_mid_x))
                IN  /\ visual_objects' = run.clusters
                    /\ merge_steps' = merge_steps \cup StepsOf("B", run.steps)
           ELSE UNCHANGED <<visual_objects, merge_steps>>
    /\ main_captions' = SortByY0(main_captions)
    /\ caption_groups' = << >>
    /\ used_object_ids' = {}
    /\ col_ceilings' = InitialCeilings
    /\ cap_k' = 1
    /\ pc' = "associate"
    /\ UNCHANGED <<inVars, handleVars, exit_code, outVars, i, page,
                   page_image_rects, captions, layVars, textVars, regionVars,
                   threshold_checks, mvars, tvars>>

(* Lines 343-532: one caption of "for cap in main_captions". *)
AssociateCaption ==
    /\ pc = "associate"
    /\ cap_k <= Len(main_captions)
    /\ LET r == AssociateOne(main_captions[cap_k], visual_objects, caption_groups,
                             used_object_ids, col_ceilings, obstacles,
                             LabelRects(captions), strict_blocks, Layout)
       IN  /\ caption_groups' = r.groups
           /\ used_object_ids' = r.used
           /\ col_ceilings' = r.col_ceil
           /\ merge_steps' = merge_steps \cup StepsOf("aligned", r.steps)
           /\ threshold_checks' = threshold_checks \cup r.checks
    /\ cap_k' = cap_k + 1
    /\ UNCHANGED <<pc, inVars, handleVars, exit_code, outVars, i, page, drawVars,
                   capVars, layVars, textVars, regionVars, mvars, tvars>>

(* Lines 534-647: after the last caption, the orphans are resolved and     *)
(* valid_final_rects is the groups' rects followed by the exported orphans. *)
ResolveOrphanObjects ==
    /\ pc = "associate"
    /\ cap_k > Len(main_captions)
    /\ LET resolved ==
               ResolveOrphans([export |-> << >>, map |-> FinalCaptionsMap(caption_groups)],
                              1, visual_objects, used_object_ids,
                              AllCaptionsForMatching(main_captions), Layout)
       IN  valid_final_rects' = ValidFinalRegions(caption_groups, resolved)
    /\ j' = 0
    /\ pc' = "regions"
    /\ UNCHANGED <<inVars, handleVars, exit_code, outVars, i, page, drawVars,
                   capVars, layVars, textVars, assocVars, merge_steps,
                   threshold_checks, mvars, tvars>>

(***************************************************************************)
(* extract_vectors, lines 684-864: the region loop                         *)
(***************************************************************************)
MaxFaults == 1

FileNameOfRegion(P, K, suffix) == "Fig" \o ToString(K) \o suffix \o ".png"

(* The f-strings of lines 849, 854 and 860. *)
FileName(P, K, suffix) ==
    "Page" \o ToString(P) \o "_Fig" \o ToString(K) \o suffix \o ".png"

(* Line 847: some embedded image rect of the page intersects the region. *)
hybrid_found(rect, image_rects) ==
    \E k \in DOMAIN image_rects : Intersects(rect, image_rects[k].rect)

(* The files a region that reaches its save writes: the rendering as _v    *)
(* and, unless extracting the raw image raises (except: pass), the image   *)
(* as _i when an image intersects the region; the plain name otherwise.    *)
SavedFiles(P, K, rect, image_rects, image_saved) ==
    IF hybrid_found(rect, image_rects)
    THEN {FileName(P, K, "_v")} \cup (IF image_saved THEN {FileName(P, K, "_i")} ELSE {})
    ELSE {FileName(P, K, "")}

(* One iteration of the region loop that raises nothing: the scratch       *)
(* document is opened and bound to temp_doc, the region is rendered,       *)
(* rasterized and saved, and total_images is incremented.                  *)
RegionSucceeds ==
    /\ pc = "regions"
    /\ j < Len(valid_final_rects)
    /\ \E image_saved \in BOOLEAN :
         files' = files \cup
            {[name |-> n, by |-> <<i, j>>] :
                n \in SavedFiles(i + 1, j + 1, valid_final_rects[j + 1].rect,
                                 page_image_rects, image_saved)}
    /\ painted' = Eraser(valid_final_rects[j + 1].rect, page, page_mid_x,
                         visual_objects, all_text_blocks)
    /\ temp_doc' = Some(<<i, j>>)
    /\ total_images' = total_images + 1
    /\ attempted' = attempted \cup {<<i, j>>}
    /\ j' = j + 1
    /\ UNCHANGED <<pc, inVars, src_doc, exit_code, warnings, i, page, drawVars,
                   capVars, layVars, textVars, assocVars, valid_final_rects,
                   merge_steps,
                   threshold_checks, mvars, tvars>>

(* One iteration of the region loop that raises: at fitz.open() of line    *)
(* 689 (temp_doc keeps what it was bound to), or later, while rendering,   *)
(* rasterizing or saving (temp_doc is bound to the new document).  The     *)
(* except of line 863 prints the warning and the loop goes on.             *)
RegionFails ==
    /\ pc = "regions"
    /\ j < Len(valid_final_rects)
    /\ Cardinality(warnings) < MaxFaults
    /\ \E opened \in BOOLEAN :
         temp_doc' = IF opened THEN Some(<<i, j>>) ELSE temp_doc
    /\ warnings' = warnings \cup {<<i, j>>}
    /\ attempted' = attempted \cup {<<i, j>>}
    /\ painted' = {}
    /\ j' = j + 1
    /\ UNCHANGED <<pc, inVars, src_doc, exit_code, total_images, files, i, page,
                   drawVars, capVars, layVars, textVars, assocVars,
                   valid_final_rects, merge_steps,
                   threshold_checks, mvars, tvars>>

(* The region loop is over: back to the page loop.  Nothing reads the      *)
(* page's locals or the last scratch page again before the next page sets  *)
(* them.                                                                   *)
RegionsDone ==
    /\ pc = "regions"
    /\ j >= Len(valid_final_rects)
    /\ pc' = "pages"
    /\ page' = NoPage
    /\ page_image_rects' = << >>
    /\ visual_objects' = << >>
    /\ captions' = << >>
    /\ main_captions' = << >>
    /\ gutter_guard_active' = FALSE
    /\ page_mid_x' = PageW \div 2
    /\ obstacles' = << >>
    /\ strict_blocks' = << >>
    /\ text_rects' = << >>
    /\ all_text_blocks' = << >>
    /\ caption_groups' = << >>
    /\ used_object_ids' = {}
    /\ col_ceilings' = InitialCeilings
    /\ cap_k' = 1
    /\ valid_final_rects' = << >>
    /\ j' = 0
    /\ merge_steps' = {}
    /\ threshold_checks' = {}
    /\ painted' = {}
    /\ UNCHANGED <<inVars, handleVars, exit_code, total_images, files, warnings,
                   attempted, i, mvars, tvars>>

(* Lines 866-867: the summary is printed and the script ends: status 0. *)
Summary ==
    /\ pc = "summary"
    /\ pc' = "exited"
    /\ exit_code' = Some(0)
    /\ UNCHANGED <<inVars, handleVars, outVars, pageVars, mvars, tvars>>

Next ==
    \/ Main
    \/ OpenDocument
    \/ PrepareOutput
    \/ NextPage
    \/ PagesDone
    \/ HarvestCaptions
    \/ HarvestCaptionsRaises
    \/ AnalyzeLayout
    \/ HarvestTextBlocks
    \/ AbsorbLabels
    \/ AssociateCaption
    \/ ResolveOrphanObjects
    \/ RegionSucceeds
    \/ RegionFails
    \/ RegionsDone
    \/ Summary

Spec == Init /\ [][Next]_vars

(***************************************************************************)
(* The regions of a page                                                   *)
(***************************************************************************)
InsidePage(r, pg) ==
    /\ 0 <= r.x0 /\ r.x1 <= pg.rect_w
    /\ 0 <= r.y0 /\ r.y1 <= pg.rect_h

PositiveSize(r) == r.x1 - r.x0 > 0 /\ r.y1 - r.y0 > 0

(* The length of the common part of the vertical extents of two rects. *)
YOverlap(r, c) == Max(0, Min(r.y1, c.y1) - Max(r.y0, c.y0))

(* C1: every region emitted for a page, caption-associated or orphan, lies *)
(* inside the page rect and has width > 0 and height > 0.                  *)
C1_RegionsInsidePage ==
    \A k \in DOMAIN valid_final_rects :
        /\ InsidePage(valid_final_rects[k].rect, page)
        /\ PositiveSize(valid_final_rects[k].rect)

(* C2 as stated: the vertical extent of every emitted region overlaps the  *)
(* vertical extent of every caption-type caption of the page by at most    *)
(* 5 pt.                                                                   *)
C2_OverlapEveryCaption ==
    \A k \in DOMAIN valid_final_rects : \A c \in DOMAIN main_captions :
        YOverlap(valid_final_rects[k].rect, main_captions[c].rect) <= Pt(5)

(* C2 amended: a region built for a caption, and an orphan cropped to the  *)
(* caption it matched, ends at least 5 pt above the top of that caption;   *)
(* nothing bounds its overlap with the other captions of the page.         *)
C2_OwnCaptionGap ==
    \A k \in DOMAIN valid_final_rects :
        valid_final_rects[k].cap_rect # None =>
            valid_final_rects[k].rect.y1 <= valid_final_rects[k].cap_rect[1].y0 - Pt(5)

(* A region trimmed by its caption's floor, and an orphan cropped to one. *)
C2_Witness ==
    /\ pc = "regions"
    /\ \E k \in DOMAIN valid_final_rects :
         /\ valid_final_rects[k].kind = "caption"
         /\ PositiveSize(valid_final_rects[k].rect)
         /\ valid_final_rects[k].rect.y1 = valid_final_rects[k].cap_rect[1].y0 - Pt(5)

(* A merge step is part of a region when the region shows some of both     *)
(* rects the step united.                                                  *)
BuiltThrough(region, step) ==
    /\ Intersects(region.rect, step.a)
    /\ Intersects(region.rect, step.b)

CrossingSteps(stages) ==
    {s \in merge_steps : s.stage \in stages /\ CentroidsOpposite(s.a, s.b, page_mid_x)}

(* C3 as stated: under the gutter guard no emitted region is built through *)
(* a merge step, of the first clustering, the second clustering or the     *)
(* aligned expansion, that united two rects with x-centroids on opposite   *)
(* sides of mid_x.                                                         *)
C3_NoCrossingStep ==
    gutter_guard_active =>
        \A k \in DOMAIN valid_final_rects :
            \A s \in CrossingSteps({"A", "B", "aligned"}) :
                ~BuiltThrough(valid_final_rects[k], s)

(* C3 amended: under the gutter guard neither the second clustering        *)
(* (threshold 30) nor the aligned expansion unites two rects with          *)
(* x-centroids on opposite sides of mid_x; the first clustering (threshold *)
(* 15) runs before the guard is known and is not covered.                  *)
C3_GuardedStepsStayInColumn ==
    gutter_guard_active => CrossingSteps({"B", "aligned"}) = {}

(* Under the guard, the second clustering refused two objects within its   *)
(* threshold that face each other across the midline, and united others.   *)
C3_Witness ==
    /\ pc = "regions"
    /\ gutter_guard_active
    /\ \E s \in merge_steps : s.stage = "B"
    /\ \E a, b \in DOMAIN visual_objects :
         /\ rects_are_close(visual_objects[a], visual_objects[b], Pt(30))
         /\ CentroidsOpposite(visual_objects[a], visual_objects[b], page_mid_x)

(***************************************************************************)
(* The outcome of a run                                                    *)
(***************************************************************************)
Ended == pc \in {"exited", "crashed"}

(* C6: a region that fails is logged as a warning and is never fatal: the  *)
(* regions after it and the later pages are still attempted and the run    *)
(* reaches its summary, so no run that printed a warning dies of an        *)
(* uncaught exception.                                                     *)
C6_RegionFailureNeverFatal == warnings # {} => pc # "crashed"

(* C7: every document handle is released on every exit path: between two   *)
(* regions and after the last one the scratch document is closed, and      *)
(* when the run has ended the source document is closed.                   *)
C7_HandlesReleased ==
    /\ temp_doc = None
    /\ Ended => src_doc = None

(* C8: a page whose text dictionary is unavailable is still processed: the *)
(* failure is swallowed and the run does not die on that page.             *)
C8_TextFailureSwallowed == ~page.text_ok => pc # "crashed"

(* C9: a run ends with status 0, or with status 1 when the PDF could not   *)
(* be opened; nothing that fails after the PDF was opened makes the status *)
(* non-zero.                                                               *)
C9_ExitCodes ==
    exit_code # None =>
        \/ exit_code = Some(0)
        \/ exit_code = Some(1) /\ src_doc = None

(* The names region K (0-based) of page P (0-based) wrote. *)
WrittenBy(r) == {f.name : f \in {g \in files : g.by = r}}

PlainName(r) == "Page" \o ToString(r[1] + 1) \o "_Fig" \o ToString(r[2] + 1) \o ".png"

VectorName(r) == "Page" \o ToString(r[1] + 1) \o "_Fig" \o ToString(r[2] + 1) \o "_v.png"

ImageName(r) == "Page" \o ToString(r[1] + 1) \o "_Fig" \o ToString(r[2] + 1) \o "_i.png"

(* C10: a saved region writes Page{P}_Fig{K}.png when no embedded image    *)
(* intersects it, and otherwise Page{P}_Fig{K}_v.png with at most one      *)
(* Page{P}_Fig{K}_i.png, never both forms; and no two regions of the       *)
(* document write the same name.                                           *)
C10_FileNames ==
    /\ \A f \in files :
         /\ f.by \in attempted \ warnings
         /\ WrittenBy(f.by) \in {{PlainName(f.by)}, {VectorName(f.by)},
                                 {VectorName(f.by), ImageName(f.by)}}
         /\ (pc = "regions" /\ f.by[1] = i) =>
                (PlainName(f.by) \in WrittenBy(f.by)
                    <=> ~hybrid_found(valid_final_rects[f.by[2] + 1].rect,
                                      page_image_rects))
    /\ \A r \in attempted \ warnings : WrittenBy(r) # {}
    /\ \A f, g \in files : f.name = g.name => f.by = g.by

(* Two pages of one document each saved their first region, one as a       *)
(* rendering with its raw image and the other under the plain name.        *)
C10_Witness ==
    \E r, q \in attempted :
        /\ r[1] # q[1]
        /\ r[2] = q[2]
        /\ WrittenBy(r) = {VectorName(r), ImageName(r)}
        /\ WrittenBy(q) = {PlainName(q)}

(***************************************************************************)
(* The associator's ceilings                                               *)
(***************************************************************************)
(* The page of the scenario "figure with body text above", its regions     *)
(* computed.                                                               *)
ScenarioTextAbove ==
    /\ pc = "regions"
    /\ page.drawings = PageTextAbove.drawings
    /\ page.blocks = PageTextAbove.blocks

(* The groups whose ceiling an obstacle raised. *)
RaisedGroups ==
    {k \in DOMAIN caption_groups :
        caption_groups[k].ceiling_y > caption_groups[k].base_ceiling}

(* C11 as stated: in the scenario "figure with body text above" the        *)
(* region's top edge is 290, no text line of the page intersects the       *)
(* region and nothing is erased; and a region whose ceiling an obstacle    *)
(* raised reaches at most 5 pt above the obstacle's bottom edge.           *)
C11_TopFivePointsAboveObstacle ==
    /\ ScenarioTextAbove =>
         /\ Len(valid_final_rects) = 1
         /\ valid_final_rects[1].rect.y0 = Pt(290)
         /\ \A n \in DOMAIN all_text_blocks :
                ~Intersects(all_text_blocks[n].rect, valid_final_rects[1].rect)
         /\ painted = {}
    /\ \A k \in RaisedGroups :
         caption_groups[k].rect.y0 >= caption_groups[k].ceiling_y - Pt(5)

(* C11 amended: in the scenario the region's top edge is 285, the ceiling  *)
(* 295 less the 10 pt buffer; the obstacle's line reaches into the region  *)
(* and is painted white by the top-buffer rule when the region is saved;   *)
(* and a region whose ceiling an obstacle raised reaches at most 10 pt     *)
(* above the obstacle's bottom edge.                                       *)
C11_TopTenPointsAboveObstacle ==
    /\ ScenarioTextAbove =>
         /\ Len(valid_final_rects) = 1
         /\ valid_final_rects[1].rect = RectPt(30, 285, 420, 505)
         /\ (j = 1 /\ warnings = {}) =>
                \E ln \in painted :
                    /\ painted = {ln}
                    /\ ln.rect = RectPt(50, 260, 400, 295)
                    /\ ln.reason = "Top Buffer"
                    /\ ln.local_rect = RectPt(20, 0, 370, 10)
    /\ \A k \in RaisedGroups :
         caption_groups[k].rect.y0 >= caption_groups[k].ceiling_y - Pt(10)

(* The scenario's region was saved with the paragraph's line painted over. *)
C11_Witness ==
    /\ ScenarioTextAbove
    /\ j = 1
    /\ painted # {}
    /\ RaisedGroups = {1}

(***************************************************************************)
(* The orphan resolver                                                     *)
(***************************************************************************)
OrphanRegions == {k \in DOMAIN valid_final_rects : valid_final_rects[k].kind # "caption"}

(* The unused objects, wider and higher than 20 pt, that reach at least    *)
(* 10 pt to each side of the midline.                                      *)
StraddlingOrphans ==
    {k \in DOMAIN visual_objects :
        /\ k \notin used_object_ids
        /\ Width(visual_objects[k]) > Pt(20) /\ Height(visual_objects[k]) > Pt(20)
        /\ visual_objects[k].x0 <= page_mid_x - Pt(10)
        /\ visual_objects[k].x1 >= page_mid_x + Pt(10)}

(* C12: under the gutter guard an unused object that straddles mid_x by at *)
(* least 10 pt on each side is cut into a left rect ending at mid_x - 5    *)
(* and a right rect starting at mid_x + 5, each kept if wider than 20 pt,  *)
(* and no orphan region of the page has mid_x in its interior.             *)
C12_OrphansSplitAtGutter ==
    (pc = "regions" /\ gutter_guard_active) =>
        /\ \A k \in StraddlingOrphans :
             LET obj == visual_objects[k]
                 left_rect == Rect(obj.x0, obj.y0, page_mid_x - Pt(5), obj.y1)
                 right_rect == Rect(page_mid_x + Pt(5), obj.y0, obj.x1, obj.y1)
             IN  OrphansFromObj(obj, Layout) =
                    (IF Width(left_rect) > Pt(20) THEN <<left_rect>> ELSE << >>)
                    \o (IF Width(right_rect) > Pt(20) THEN <<right_rect>> ELSE << >>)
        /\ \A k \in OrphanRegions :
             ~(/\ valid_final_rects[k].rect.x0 < page_mid_x
               /\ page_mid_x < valid_final_rects[k].rect.x1)

(***************************************************************************)
(* The regions of the caption groups and the midline                       *)
(***************************************************************************)
LeftColumnGroups ==
    {k \in DOMAIN caption_groups : caption_groups[k].union.x1 < page_mid_x - Pt(20)}

RightColumnGroups ==
    {k \in DOMAIN caption_groups : caption_groups[k].union.x0 > page_mid_x + Pt(20)}

(* The page of the scenario "two figures side by side", its regions        *)
(* computed.                                                               *)
ScenarioTwoColumn ==
    /\ pc = "regions"
    /\ page.drawings = PageTwoColumn.drawings
    /\ page.blocks = PageTwoColumn.blocks

(* C13: under the gutter guard, the region of a group whose union is more  *)
(* than 20 pt left of mid_x ends left of mid_x, the region of a group      *)
(* whose union is more than 20 pt right of mid_x starts right of mid_x,    *)
(* padding and single-column extension included; and the two side-by-side  *)
(* figures of the scenario give two regions that do not cross mid_x.       *)
C13_RegionsStayInColumn ==
    /\ gutter_guard_active =>
         /\ \A k \in LeftColumnGroups : caption_groups[k].rect.x1 < page_mid_x
         /\ \A k \in RightColumnGroups : caption_groups[k].rect.x0 > page_mid_x
    /\ ScenarioTwoColumn =>
         /\ gutter_guard_active
         /\ Len(valid_final_rects) = 2
         /\ valid_final_rects[1].rect.x1 < page_mid_x
         /\ valid_final_rects[2].rect.x0 > page_mid_x

(* A guard page with a left group whose region was stretched towards the   *)
(* gutter and a right group.                                               *)
C13_Witness ==
    /\ pc = "regions"
    /\ gutter_guard_active
    /\ \E k \in LeftColumnGroups :
         caption_groups[k].rect.x1 > caption_groups[k].union.x1 + Pt(20)
    /\ RightColumnGroups # {}

(***************************************************************************)
(* The pixel trim                                                          *)
(***************************************************************************)
(* The samples of a pixmap with a gray value below 250. *)
InkOf(pix) == {d \in pix.ink : d.v < 250}

(* b covers every sample below 250 of pix, and each of its four sides      *)
(* touches one: no smaller integer rectangle covers them.                  *)
SmallestCover(b, pix) ==
    /\ \A d \in InkOf(pix) : b.x0 <= d.x /\ d.x < b.x1 /\ b.y0 <= d.y /\ d.y < b.y1
    /\ \E d \in InkOf(pix) : d.x = b.x0
    /\ \E d \in InkOf(pix) : d.x = b.x1 - 1
    /\ \E d \in InkOf(pix) : d.y = b.y0
    /\ \E d \in InkOf(pix) : d.y = b.y1 - 1

(* C14: pixel trim loses no content. When the grayscale conversion         *)
(* succeeds and the pixmap has a sample below 250, trim_pixmap returns the *)
(* smallest integer rectangle covering every such sample; the margin box   *)
(* reaches 8 pixels beyond it on each side or stops at the pixmap's edge,  *)
(* so it lies inside the pixmap and contains the rectangle; the saved      *)
(* pixmap has the size of the margin box and its own non-white bounding    *)
(* box is the original's moved by the corner of the margin box. A pixmap   *)
(* with no sample below 250 is left untrimmed.                             *)
C14_PixelTrimLosesNothing ==
    (t_pc = "trimmed" /\ t_gray_ok) =>
        IF InkOf(t_pix) = {}
        THEN /\ t_trim_bbox = None
             /\ t_final_bbox = None
             /\ t_new_pix = t_pix
        ELSE /\ t_trim_bbox # None
             /\ t_final_bbox # None
             /\ LET b == t_trim_bbox[1]
                    f == t_final_bbox[1]
                IN  /\ SmallestCover(b, t_pix)
                    /\ 0 <= f.x0 /\ 0 <= f.y0
                    /\ f.x1 <= t_pix.width /\ f.y1 <= t_pix.height
                    /\ f.x0 <= b.x0 /\ f.y0 <= b.y0
                    /\ b.x1 <= f.x1 /\ b.y1 <= f.y1
                    /\ f.x0 \in {0, b.x0 - 8} /\ f.y0 \in {0, b.y0 - 8}
                    /\ f.x1 \in {t_pix.width, b.x1 + 8}
                    /\ f.y1 \in {t_pix.height, b.y1 + 8}
                    /\ t_new_pix.width = f.x1 - f.x0
                    /\ t_new_pix.height = f.y1 - f.y0
                    /\ trim_pixmap(t_new_pix, TRUE) =
                         Some(Rect(b.x0 - f.x0, b.y0 - f.y0, b.x1 - f.x0, b.y1 - f.y0))
                    /\ InkOf(t_new_pix) =
                         {[x |-> d.x - f.x0, y |-> d.y - f.y0, v |-> d.v] : d \in InkOf(t_pix)}

(* C14's case: a pixmap with a dark sample and a near-white one (250) that *)
(* the trim really crops on the left, right, top and bottom.               *)
C14_Witness ==
    /\ t_pc = "trimmed"
    /\ t_gray_ok
    /\ InkOf(t_pix) # {}
    /\ \E d \in t_pix.ink : d.v = 250
    /\ t_final_bbox # None
    /\ t_final_bbox[1].x0 > 0 /\ t_final_bbox[1].y0 > 0
    /\ t_final_bbox[1].x1 < t_pix.width /\ t_final_bbox[1].y1 < t_pix.height
    /\ t_new_pix # t_pix

(***************************************************************************)
(* The eraser's caption protection                                         *)
(***************************************************************************)
(* The region of index j was saved by the last iteration of the region     *)
(* loop: "painted" is what the eraser drew for it.                         *)
RegionSaved ==
    /\ pc = "regions"
    /\ j >= 1
    /\ <<i, j - 1>> \notin warnings

SavedRect == valid_final_rects[j].rect

SavedBounds == VisualBounds(visual_objects, SavedRect)

LineOpposite(n) ==
    OppositeColumn(all_text_blocks[n], fig_col(SavedRect, page, page_mid_x), page_mid_x)

LineBranch(n) == ChainBranch(all_text_blocks[n], SavedBounds[1], LineOpposite(n))

(* The lines the eraser selected (should_erase) for the saved region. *)
SelectedLines ==
    IF ~RegionSaved \/ SavedBounds = None THEN {}
    ELSE {n \in DOMAIN all_text_blocks :
            /\ EraseCandidate(all_text_blocks[n], SavedRect, SavedBounds[1])
            /\ \/ LineOpposite(n)
               \/ BranchErases(LineBranch(n), all_text_blocks[n].len)}

SelectedCaptionLines ==
    {n \in SelectedLines : StartsLikeCaption(all_text_blocks[n].text)}

PaintedLine(n) ==
    \E ln \in painted : /\ ln.rect = all_text_blocks[n].rect
                        /\ ln.text = all_text_blocks[n].text

(* C15 as stated: a caption-like line selected for erasure is painted over *)
(* exactly when it is in the opposite column or was selected by the right  *)
(* or left side rule; selected by a top rule only (top-strict, top-buffer, *)
(* top-inner) it is preserved.                                             *)
C15_CaptionPreservedUnlessSide ==
    \A n \in SelectedCaptionLines :
        PaintedLine(n) <=>
            (LineOpposite(n) \/ LineBranch(n) \in {"Right Side", "Left Side"})

(* C15 amended: a caption-like line selected for erasure is painted over   *)
(* exactly when it is in the opposite column or was selected by the        *)
(* top-strict, right or left side rule; selected by the top-buffer or      *)
(* top-inner rule only it is preserved.                                    *)
C15_CaptionPreservedUnlessSideOrTopStrict ==
    \A n \in SelectedCaptionLines :
        PaintedLine(n) <=>
            (LineOpposite(n)
               \/ LineBranch(n) \in {"Top Strict", "Right Side", "Left Side"})

(* C15's case: the caption of the figure above reaches into the saved      *)
(* region, is selected by the top-buffer or top-inner rule and is kept.    *)
C15_Witness ==
    \E n \in SelectedCaptionLines :
        /\ ~LineOpposite(n)
        /\ LineBranch(n) \in {"Top Buffer", "Top Inner Guard"}
        /\ ~PaintedLine(n)

(***************************************************************************)
(* The orphan resolver's captions                                          *)
(***************************************************************************)
(* The regions of the page that are orphans cropped above a caption they   *)
(* matched.                                                                *)
CroppedOrphans ==
    {k \in DOMAIN valid_final_rects : valid_final_rects[k].kind = "cropped"}

(* C16: a caption matched by an orphan is consumed: no other orphan of the *)
(* page is matched to the same caption, and the caption's group is not     *)
(* among the regions emitted for the page.                                 *)
C16_MatchedCaptionConsumed ==
    pc = "regions" =>
        \A a \in CroppedOrphans : \A b \in DOMAIN valid_final_rects :
            b # a => valid_final_rects[b].cap_rect # valid_final_rects[a].cap_rect

(***************************************************************************)
(* The text harvest's caption exemption                                    *)
(***************************************************************************)
(* The text blocks of the page whose text starts like a caption. *)
CaptionLikeBlocks ==
    {n \in DOMAIN page.blocks :
        /\ page.blocks[n].type = 0
        /\ StartsLikeCaption(JoinTexts(page.blocks[n].lines))}

(* C17: a text block whose text starts with Figure or Fig, an optional     *)
(* dot, optional white space and a digit is never in obstacles and never   *)
(* in strict_blocks, whatever its length.                                  *)
C17_CaptionLikeNeverObstacle ==
    page # NoPage =>
        \A n \in CaptionLikeBlocks :
            /\ page.blocks[n].bbox \notin SeqToSet(obstacles)
            /\ page.blocks[n].bbox \notin SeqToSet(strict_blocks)

(***************************************************************************)
(* The eraser's right side rule                                            *)
(***************************************************************************)
(* The lines the eraser looks at for the saved region (they intersect it   *)
(* and do not start below the visual bounds) whose left edge is right of   *)
(* right_safe_x.                                                           *)
RightSideLines ==
    IF ~RegionSaved \/ SavedBounds = None THEN {}
    ELSE {n \in DOMAIN all_text_blocks :
            /\ EraseCandidate(all_text_blocks[n], SavedRect, SavedBounds[1])
            /\ all_text_blocks[n].rect.x0 > right_safe_x(SavedBounds[1])}

(* C18: every line the eraser looks at whose left edge is right of         *)
(* right_safe_x is painted over, whether or not it also lies in a top zone *)
(* whose length condition it fails (lines that start like a caption are    *)
(* left to the caption-override rule).                                     *)
C18_RightSideErased ==
    \A n \in RightSideLines :
        ~StartsLikeCaption(all_text_blocks[n].text) => PaintedLine(n)

(***************************************************************************)
(* The label-adaptive thresholds of the aligned expansion                  *)
(***************************************************************************)
(* The labels of the page within 200 pt of a rect. *)
LabelsNear(r) ==
    {k \in DOMAIN LabelRects(captions) :
        rects_are_close(r, LabelRects(captions)[k], Pt(200))}

(* C19 as stated: in the aligned expansion the horizontal and the diagonal *)
(* threshold are 150 pt whenever a label, even a single one, lies within   *)
(* 200 pt of the union u or of the candidate object, and 40 pt otherwise.  *)
C19_RelaxedWithAnyLabel ==
    \A c \in threshold_checks :
        LET relaxed == LabelsNear(c.u) # {} \/ LabelsNear(c.obj) # {}
        IN  /\ c.horizontal_threshold = IF relaxed THEN Pt(150) ELSE Pt(40)
            /\ c.diagonal_threshold = IF relaxed THEN Pt(150) ELSE Pt(40)

(* C19 amended: the thresholds are 150 pt when at least two labels lie     *)
(* within 200 pt of the union u, or at least two within 200 pt of the      *)
(* candidate object, and 40 pt otherwise: with exactly one label nearby    *)
(* they are 40 pt.                                                         *)
C19_RelaxedWithTwoLabels ==
    \A c \in threshold_checks :
        LET relaxed == \/ Cardinality(LabelsNear(c.u)) >= 2
                       \/ Cardinality(LabelsNear(c.obj)) >= 2
        IN  /\ c.horizontal_threshold = IF relaxed THEN Pt(150) ELSE Pt(40)
            /\ c.diagonal_threshold = IF relaxed THEN Pt(150) ELSE Pt(40)

(* C19's case: a panel 40 pt or more beside the union was compared under   *)
(* the relaxed thresholds, two labels being near, and joined the group.    *)
C19_Witness ==
    \E c \in threshold_checks :
        /\ Cardinality(LabelsNear(c.u)) >= 2
        /\ c.horizontal_threshold = Pt(150)
        /\ c.obj.x0 - c.u.x1 >= Pt(40)
        /\ \E k \in DOMAIN caption_groups :
               caption_groups[k].union = Union(c.u, c.obj)

(***************************************************************************)
(* The column ceilings                                                     *)
(***************************************************************************)
(* The caption the associator is about to process, and its zone. *)
ThisCaption == main_captions[cap_k]

ThisZone == CaptionZone(ThisCaption.rect, Layout)

(* One caption has been processed in this step. *)
CaptionProcessed == pc = "associate" /\ cap_k' = cap_k + 1

(* The zones whose entry of col_ceilings a caption of zone z overwrites. *)
Overwritten(z) ==
    IF z = "full" THEN {"full"}
    ELSE IF z = "mixed" THEN {"left", "right"}
    ELSE {z}

(* The ceiling a caption of zone z starts from, before the obstacles. *)
StartCeiling(z) ==
    SetMax({col_ceilings.full}
           \cup (IF z \in {"left", "mixed"} THEN {col_ceilings.left} ELSE {})
           \cup (IF z \in {"right", "mixed"} THEN {col_ceilings.right} ELSE {}))

(* C20: processing a caption, whether or not it forms a group, overwrites  *)
(* with the caption's bottom y1 the entry "full" for a full caption, the   *)
(* entries "left" and "right" for a mixed caption and the caption's own    *)
(* entry for a left or right caption, and leaves every other entry as it   *)
(* was; the ceiling the caption started from, before obstacle refinement,  *)
(* is the maximum of the entry "full" and of the entries of its own        *)
(* side(s).                                                                *)
C20_CeilingsOverwritten ==
    [][CaptionProcessed =>
          /\ \A z \in {"left", "right", "full", "mixed"} :
                col_ceilings'[z] = IF z \in Overwritten(ThisZone)
                                   THEN ThisCaption.rect.y1
                                   ELSE col_ceilings[z]
          /\ Len(caption_groups') > Len(caption_groups) =>
                caption_groups'[Len(caption_groups')].base_ceiling
                    = StartCeiling(ThisZone)]_vars

(* C20's case: the third caption of a page has been processed after a      *)
(* full and a mixed caption, the three sides hold different ceilings, and  *)
(* its group started from the ceiling of its own side, above "full".       *)
C20_Witness ==
    /\ pc = "associate"
    /\ cap_k = 4
    /\ col_ceilings.full # col_ceilings.left
    /\ col_ceilings.left # col_ceilings.right
    /\ col_ceilings.mixed = Pt(40)
    /\ Len(caption_groups) = 3
    /\ caption_groups[3].base_ceiling > col_ceilings.full

(***************************************************************************)
(* The used objects                                                        *)
(***************************************************************************)
(* The positions in visual_objects of the objects of group k. *)
GroupMembers(k) == SeqToSet(caption_groups[k].members)

AllGroupMembers == UNION {GroupMembers(k) : k \in DOMAIN caption_groups}

(* C21: within a page each visual object is used by at most one caption    *)
(* group: no object is twice in a group, no object is in two groups, every *)
(* object of a group is marked used, and no region exported for an orphan  *)
(* is made of an object of a group.                                        *)
C21_ObjectUsedOnce ==
    /\ \A a \in DOMAIN caption_groups :
          /\ Cardinality(GroupMembers(a)) = Len(caption_groups[a].members)
          /\ GroupMembers(a) \subseteq used_object_ids
          /\ \A b \in DOMAIN caption_groups :
                a # b => GroupMembers(a) \cap GroupMembers(b) = {}
    /\ used_object_ids = AllGroupMembers
    /\ \A n \in DOMAIN valid_final_rects :
          valid_final_rects[n].kind # "caption" =>
              valid_final_rects[n].objs \cap AllGroupMembers = {}

(* C21's case: an object of an earlier group lies in the column and        *)
(* between the ceiling and the floor of a later caption, which formed its  *)
(* own group without it, and the regions of the page are computed.         *)
C21_Witness ==
    /\ pc = "regions"
    /\ \E a, b \in DOMAIN caption_groups :
          /\ a < b
          /\ \E k \in GroupMembers(a) :
                /\ Relevant(caption_groups[b].c_col,
                            get_col_zone(visual_objects[k], Layout), Layout)
                /\ Cy2(visual_objects[k]) < 2 * caption_groups[b].cap_rect.y0
                /\ Cy2(visual_objects[k]) > 2 * caption_groups[b].ceiling_y

(***************************************************************************)
(* The vertical rule of the aligned expansion                              *)
(***************************************************************************)
(* The vertical gap between two rects, 0 when their y ranges meet. *)
YGap(u, obj) ==
    IF obj.y1 < u.y0 THEN u.y0 - obj.y1
    ELSE IF u.y1 < obj.y0 THEN obj.y0 - u.y1
    ELSE 0

Contains(outer, inner) ==
    /\ outer.x0 <= inner.x0 /\ inner.x1 <= outer.x1
    /\ outer.y0 <= inner.y0 /\ inner.y1 <= outer.y1

(* C23: the rect emitted for an orphan that was re-associated with a       *)
(* caption is a crop of the orphan: it is contained in the orphan's rect,  *)
(* its bottom edge (the caption's top less 5 pt) is not below the orphan's *)
(* bottom edge.                                                            *)
C23_CroppedInsideOrphan ==
    \A n \in CroppedOrphans :
        /\ valid_final_rects[n].rect.y1 <= valid_final_rects[n].orphan[1].y1
        /\ Contains(valid_final_rects[n].orphan[1], valid_final_rects[n].rect)

(***************************************************************************)
(* C24                                                                     *)
(***************************************************************************)
(* n passes of the outer loop of merge_rects, one after the other. *)
RECURSIVE Passes(_, _, _, _)
Passes(clusters, threshold, gutter_midline, n) ==
    IF n = 0 THEN clusters
    ELSE Passes(MergePass(clusters, << >>, threshold, gutter_midline, {}).clusters,
                threshold, gutter_midline, n - 1)

(* C24: merge_rects terminates on every finite input list (a list of n     *)
(* rects is at its fixpoint after at most n passes of the while loop, and  *)
(* that fixpoint is what is returned); it returns at most as many rects as *)
(* it was given, and at least one when the input is non-empty; every input *)
(* rect is contained in at least one returned cluster rect; and when       *)
(* gutter_midline is None no two returned rects are close at the given     *)
(* threshold.                                                              *)
C24_MergeTerminatesAndCovers ==
    m_pc # "input" =>
        /\ m_result = Passes(m_rects, m_threshold, m_gutter, Len(m_rects))
        /\ Len(m_result) <= Len(m_rects)
        /\ (m_rects # << >> => Len(m_result) >= 1)
        /\ \A k \in DOMAIN m_rects :
               \E n \in DOMAIN m_result : Contains(m_result[n], m_rects[k])
        /\ m_gutter = None =>
               \A a, b \in DOMAIN m_result :
                   a # b => ~rects_are_close(m_result[a], m_result[b], m_threshold)

(* C24's case: a call without a gutter midline that unioned some of its    *)
(* input and still returned several clusters, none of them an input rect   *)
(* left as it was given.                                                   *)
C24_Witness ==
    /\ m_pc = "merged"
    /\ m_gutter = None
    /\ Len(m_rects) = MaxRects
    /\ Len(m_result) = 2
    /\ \E n \in DOMAIN m_result : m_result[n] \notin SeqToSet(m_rects)

====
